---- MODULE Spec2Model ----
(***************************************************************************)
(* Productivity and timesheet aggregation of jira-tools.                   *)
(*                                                                         *)
(* Two copies of the engine are modelled side by side: the command-line    *)
(* copy (src/main.py, definitions suffixed _main) and the web dashboard    *)
(* copy (src/dashboard/jira_logic.py, suffixed _dashboard).                *)
(*                                                                         *)
(* Representation.                                                         *)
(*  - Text on which the code does character work (lower(), substring) is a *)
(*    sequence of one-character strings; None of such a text is NoneText.  *)
(*  - An optional number is <<>> (None) or <<n>>.                          *)
(*  - An hour value h (a Python float) is represented by the number of     *)
(*    seconds 3600*h; a value rounded with round(h, 2) by its number of    *)
(*    hundredths.  Arithmetic is exact: float error is not modelled.       *)
(*  - A date is its proleptic Gregorian ordinal (date.toordinal()).        *)
(***************************************************************************)
EXTENDS Integers, Sequences, FiniteSets, TLC

VARIABLES
    ipIn,       \* get_issue_productivity: the call (issue, flags, tracker behaviour)
    ipOut,      \* get_issue_productivity: the returned value
    ipPc,       \* "idle" | "call" | "done"
    mtIn,       \* identity matching: who-am-I behaviour, username, worklog author
    mtMe,       \* identity matching: the dict get_me returned
    mtMatch,    \* identity matching: what _is_my_worklog returned
    mtPc,       \* "idle" | "get_me" | "match" | "done"
    drIn,       \* _dates_in_range: start_date, end_date, exclude_weekends, holidays
    drCur,      \* _dates_in_range: cur
    drDays,     \* _dates_in_range: days
    drPc,       \* "idle" | "loop" | "done"
    rpIn,       \* daily/range report: the call (copy, window, flags, who-am-I behaviour)
    rpPc,       \* "idle" | "start" | "loop" | "done"
    rpDates,    \* included_dates
    rpMe,       \* me
    rpIssues,   \* logged_issues
    rpI,        \* position of the for loop in logged_issues
    rpHours,    \* date_logged_hours / range_hours of the issues processed so far
    rpScored,   \* daily_productivity_scores / range_productivity
    rpExcluded, \* issues_without_productivity / issues_without
    rpProductive, \* productive_issues_only (dashboard)
    rpTotals,   \* the running sums and the overall score
    rpQueries,  \* number of tracker calls made so far
    rpOut,      \* "none" | "parse_error" | "no_working_days" | "no_issues" |
                \* "empty_report" | "report" | "error"
    whIn,       \* daily work hours: the call (copy, target date, who-am-I, username)
    whPc,       \* "idle" | "start" | "loop" | "done"
    whMe,       \* me
    whIssues,   \* logged_issues
    whI,        \* position of the for loop in logged_issues
    whIssueHours, \* issue_hours: the issues with hours on the date, in order
    whTotal,    \* total_hours_logged, in seconds
    whOut,      \* "none" | "parse_error" | "connect_error" | "exception" | "report" |
                \* "error"
    tsIn,       \* timesheet completeness: the call (copy, today, days_back, settings)
    tsPc,       \* "idle" | "start" | "loop" | "done"
    tsMe,       \* me = get_me(jira)
    tsIncluded, \* included
    tsIssues,   \* issues
    tsI,        \* position of the issue loop
    tsLogs,     \* logs_by_day, in seconds
    tsRows,     \* rows / days_data
    tsTotalGap, \* total_gap, in hundredths of an hour
    tsOut,      \* "none" | "report" | "error" | "exception"
    pgIn,       \* _search_all_issues: the copy, its batch and the tracker's result list
    pgPc,       \* "idle" | "loop" | "done"
    pgStartAt,  \* start_at
    pgIssues,   \* issues
    pgOffsets,  \* the startAt of the requests made so far, in order
    pgBeat,     \* alternates with every request sent to the tracker
    pgOut,      \* "none" | "returned" | "exception"
    twCall,     \* get_range_productivity called twice: the window and flag of both calls
    twTracker,  \* the frozen tracker: who-am-I, search result, the call that raises
    twClock,    \* the day it is
    twPc,       \* "idle" | "first" | "between" | "done"
    twOut1,     \* what the first call returned
    twOut2,     \* what the second call returned
    clScore,    \* the score that is displayed: productivity_score or final_score
    clBand,     \* the classification line printed for it
    clPc,       \* "idle" | "show" | "done"
    psIn,       \* _parse_iso_date: the timestamp text and the interpreter's fromisoformat
    psOut,      \* the parser that read the text and the calendar date, or the failure
    psPc,       \* "idle" | "call" | "done"
    crEnv,      \* os.environ: JIRA_URL, JIRA_USERNAME, JIRA_PAT ("<unset>" when absent)
    crStore,    \* the keyring entries of the service ("<unset>" when not stored)
    crKeyring,  \* "idle" | "none" (import failed) | "working" | "failing" (backend raises)
    crLast,     \* the last call of login_helper: what was asked, entered and returned
    crPrev,     \* the call before it
    wsSession,  \* request.session: jira_url, jira_username, jira_pat
    wsBefore,   \* the session as the last request found it
    wsReq,      \* the last request: view, method, posted fields, outcome of the connection test
    wsResp,     \* the response to the last request
    wsFlushed,  \* logout_view ran and no login has succeeded since
    dlIn,       \* one call of the days-with-logs form: its arguments and the tracker's answers
    dlPc,       \* "start", "called" (the call as given returned), "done" (so did the call in order)
    dlOut,      \* what the call with the arguments as given returned
    dlOrdered   \* what the call with the two dates in ascending order returned

issueVars == <<ipIn, ipOut, ipPc>>
matchVars == <<mtIn, mtMe, mtMatch, mtPc>>
dateVars == <<drIn, drCur, drDays, drPc>>
reportVars == <<rpIn, rpPc, rpDates, rpMe, rpIssues, rpI, rpHours, rpScored, rpExcluded,
                rpProductive, rpTotals, rpQueries, rpOut>>
hoursVars == <<whIn, whPc, whMe, whIssues, whI, whIssueHours, whTotal, whOut>>
timesheetVars == <<tsIn, tsPc, tsMe, tsIncluded, tsIssues, tsI, tsLogs, tsRows, tsTotalGap, tsOut>>
pageVars == <<pgIn, pgPc, pgStartAt, pgIssues, pgOffsets, pgBeat, pgOut>>
twiceVars == <<twCall, twTracker, twClock, twPc, twOut1, twOut2>>
classifyVars == <<clScore, clBand, clPc>>
parseVars == <<psIn, psOut, psPc>>
credVars == <<crEnv, crStore, crKeyring, crLast, crPrev>>
webVars == <<wsSession, wsBefore, wsReq, wsResp, wsFlushed>>
loggedVars == <<dlIn, dlPc, dlOut, dlOrdered>>
vars == <<issueVars, matchVars, dateVars, reportVars, hoursVars, timesheetVars, pageVars, twiceVars, classifyVars, parseVars, credVars, webVars, loggedVars>>

----------------------------------------------------------------------------
(* Text *)

NoneText == <<"<None>">>

UpperCase == <<"A","B","C","D","E","F","G","H","I","J","K","L","M",
               "N","O","P","Q","R","S","T","U","V","W","X","Y","Z">>
LowerCase == <<"a","b","c","d","e","f","g","h","i","j","k","l","m",
               "n","o","p","q","r","s","t","u","v","w","x","y","z">>

\* str.lower() on one character
LowerChar(c) ==
    IF \E i \in 1..Len(UpperCase) : UpperCase[i] = c
    THEN LowerCase[CHOOSE i \in 1..Len(UpperCase) : UpperCase[i] = c]
    ELSE c

\* str.lower()
Lower(s) == [i \in 1..Len(s) |-> LowerChar(s[i])]

\* sub in s
Contains(sub, s) ==
    \E i \in 0..(Len(s) - Len(sub)) : SubSeq(s, i + 1, i + Len(sub)) = sub

\* Python truthiness of an optional text: None and "" are falsy
TruthyText(s) == s # NoneText /\ s # <<>>

\* (s or "")
OrEmpty(s) == IF TruthyText(s) THEN s ELSE <<>>

t_task == <<"t","a","s","k">>
t_story == <<"s","t","o","r","y">>

\* issue type names the tracker may carry
TypeTask == <<"T","a","s","k">>
TypeSubTask == <<"S","u","b","-","t","a","s","k">>
TypeStory == <<"S","t","o","r","y">>
TypeStoryUpper == <<"S","T","O","R","Y">>
TypeBug == <<"B","u","g">>
TypeStoryTask == <<"S","t","o","r","y"," ","T","a","s","k">>

\* status labels the tracker may carry
StDone == <<"D","o","n","e">>
StDoneUpper == <<"D","O","N","E">>
StClosed == <<"C","l","o","s","e","d">>
StOpen == <<"O","p","e","n">>
StInProgress == <<"I","n"," ","P","r","o","g","r","e","s","s">>

\* DONE_STATUSES: the default "Done,Closed,Resolved,Completed", stripped and lowered
DONE_STATUSES ==
    { Lower(s) : s \in { StDone, StClosed,
                         <<"R","e","s","o","l","v","e","d">>,
                         <<"C","o","m","p","l","e","t","e","d">> } }

is_done_status(name) == Lower(OrEmpty(name)) \in DONE_STATUSES

\* PRODUCTIVE_ACTIVITY_TYPES (the default list; membership is exact)
PRODUCTIVE_ACTIVITY_TYPES ==
    { "Project Development", "Support", "Engineering & R&D",
      "Testing", "Code Review", "Unit Testing" }

----------------------------------------------------------------------------
(* Numbers *)

None == <<>>
Some(n) == <<n>>
IsNone(o) == o = <<>>
Val(o) == o[1]

\* Python truthiness of an optional number: None and 0 are falsy
TruthyNum(o) == o # <<>> /\ o[1] # 0

Abs(n) == IF n < 0 THEN -n ELSE n

\* n/d rounded to the nearest integer, ties to even (Python's round), d > 0
RoundHalfEven(n, d) ==
    LET q == n \div d
        r == n - q * d
    IN  IF 2 * r < d THEN q
        ELSE IF 2 * r > d THEN q + 1
        ELSE IF q % 2 = 0 THEN q ELSE q + 1

\* round(seconds / 3600.0, 2), in hundredths of an hour
RoundHours(seconds) == RoundHalfEven(100 * seconds, 3600)

calculate_productivity_score_spent(estimated, logged) ==
    IF estimated = 0 THEN None
    ELSE <<logged * 100, estimated>>

\* calculate_productivity_score: None, or the fraction <<numerator, denominator>>
\* of ((estimated - logged) / estimated) * 100; both arguments in one unit
calculate_productivity_score(estimated, logged) ==
    IF estimated = 0 THEN None
    ELSE <<(estimated - logged) * 100, estimated>>

\* round(score, 2) of a fraction, in hundredths of a percent
RoundScore(frac) == RoundHalfEven(100 * frac[1], frac[2])

----------------------------------------------------------------------------
(* Business calendar *)

\* date.weekday() of an ordinal: Monday is 0 (ordinal 1, 0001-01-01, is a Monday)
Weekday(d) == (d + 6) % 7

IncludeDate_sat(cur, exclude_weekends, holidays) ==
    (~exclude_weekends \/ Weekday(cur) <= 5) /\ cur \notin holidays

\* the test of the loop body: the date is added to days
IncludeDate(cur, exclude_weekends, holidays) ==
    (~exclude_weekends \/ Weekday(cur) < 5) /\ cur \notin holidays

\* the while loop of _dates_in_range, from cur on
RECURSIVE DatesLoop(_, _, _, _, _)
DatesLoop(cur, end_date, exclude_weekends, holidays, days) ==
    IF cur <= end_date
    THEN DatesLoop(cur + 1, end_date, exclude_weekends, holidays,
                   IF IncludeDate(cur, exclude_weekends, holidays)
                   THEN days \cup {cur} ELSE days)
    ELSE days

\* _dates_in_range(start_date, end_date, exclude_weekends, holidays), src/main.py
_dates_in_range_main(start_date, end_date, exclude_weekends, holidays) ==
    DatesLoop(start_date, end_date, exclude_weekends, holidays, {})

\* the holidays argument of the dashboard copy, None by default
NoHolidays == [given |-> FALSE, dates |-> {}]
Holidays(dates) == [given |-> TRUE, dates |-> dates]
HolidaysOrEmpty(holidays) == IF holidays.given THEN holidays.dates ELSE {}

\* _dates_in_range(start_date, end_date, exclude_weekends, holidays=None),
\* src/dashboard/jira_logic.py
_dates_in_range_dashboard(start_date, end_date, exclude_weekends, holidays) ==
    DatesLoop(start_date, end_date, exclude_weekends, HolidaysOrEmpty(holidays), {})

----------------------------------------------------------------------------
(* Tracker data: identities, worklogs, issues *)

\* an attribute the author object does not have (hasattr is false)
MissingAttr == <<"<missing>">>

\* worklog.started: a timestamp text, by its shape and the calendar day written in it
\*   "native"  2025-08-27T10:00:00.000+0530     "garbage"  not a date at all
Stamp(shape, day) == [shape |-> shape, day |-> day]

\* _parse_iso_date(dt_str).date(): None when every parser fails (ValueError)
_parse_iso_date(started) ==
    IF started.shape = "garbage" THEN None ELSE Some(started.day)

\* get_me's dict
Me(accountId, name, displayName) ==
    [accountId |-> accountId, name |-> name, displayName |-> displayName]

\* get_me(jira), src/main.py; whoami: jira.myself() raising, or the dict it returns
get_me_main(whoami, JIRA_USERNAME) ==
    IF whoami.fails THEN Me(NoneText, JIRA_USERNAME, NoneText)
    ELSE Me(whoami.accountId, whoami.name, whoami.displayName)

\* get_me(jira), src/dashboard/jira_logic.py
get_me_dashboard(whoami) ==
    IF whoami.fails THEN Me(NoneText, NoneText, NoneText)
    ELSE Me(whoami.accountId, whoami.name, whoami.displayName)

_is_my_worklog_exactname(worklog, me) ==
    LET wl_author == worklog.author IN
    IF ~wl_author.present THEN FALSE
    ELSE IF /\ wl_author.accountId # MissingAttr
            /\ TruthyText(me.accountId)
            /\ wl_author.accountId = me.accountId
         THEN TRUE
    ELSE IF /\ wl_author.name # MissingAttr
            /\ TruthyText(me.name)
            /\ TruthyText(wl_author.name)
            /\ wl_author.name = me.name
         THEN TRUE
    ELSE IF /\ wl_author.displayName # MissingAttr
            /\ TruthyText(me.displayName)
            /\ wl_author.displayName = me.displayName
         THEN TRUE
    ELSE FALSE

\* _is_my_worklog(worklog, me)
_is_my_worklog(worklog, me) ==
    LET wl_author == worklog.author IN
    IF ~wl_author.present THEN FALSE
    ELSE IF /\ wl_author.accountId # MissingAttr
            /\ TruthyText(me.accountId)
            /\ wl_author.accountId = me.accountId
         THEN TRUE
    ELSE IF /\ wl_author.name # MissingAttr
            /\ TruthyText(me.name)
            /\ TruthyText(wl_author.name)
            /\ Lower(wl_author.name) = Lower(me.name)
         THEN TRUE
    ELSE IF /\ wl_author.displayName # MissingAttr
            /\ TruthyText(me.displayName)
            /\ wl_author.displayName = me.displayName
         THEN TRUE
    ELSE FALSE

\* total += wl.timeSpentSeconds / 3600.0 over a worklog list, in list order
RECURSIVE SumSeconds(_)
SumSeconds(worklogs) ==
    IF worklogs = <<>> THEN 0
    ELSE Head(worklogs).timeSpentSeconds + SumSeconds(Tail(worklogs))

\* _extract_activity_type(issue): the custom field by its shape
NoneAct == "<None>"
_extract_activity_type(field_value) ==
    CASE field_value.shape = "none"   -> NoneAct
      [] field_value.shape = "object" -> field_value.value
      [] field_value.shape = "dict"   -> field_value.value
      [] OTHER                        -> field_value.value    \* str(field_value)

\* _collect_logged_hours(jira, issue, me): meOpt is <<>> for me=None
_collect_logged_hours(worklogs, worklogsFail, meOpt) ==
    IF worklogsFail THEN 0
    ELSE LET Keep(wl) == meOpt = <<>> \/ _is_my_worklog(wl, meOpt[1])
         IN  SumSeconds(SelectSeq(worklogs, Keep))

----------------------------------------------------------------------------
(* Results of get_issue_productivity *)

BlankResult ==
    [ kind |-> "reason",          \* "record" | "aggregate" | "reason"
      reason |-> "",
      issue_key |-> "",
      type |-> NoneText,
      status |-> NoneText,
      activity_type |-> NoneAct,
      estimated_hours |-> 0,
      logged_hours |-> 0,
      productivity_score |-> None,
      is_productive_activity |-> FALSE,
      story_aggregate |-> FALSE,
      included_subtasks_count |-> 0,
      excluded_subtasks_missing_estimate |-> 0,
      aggregated_estimated_hours |-> 0,
      aggregated_logged_hours |-> 0,
      aggregated_productivity_score |-> None ]

ReasonResult(issue_key, reason) ==
    [BlankResult EXCEPT !.kind = "reason", !.issue_key = issue_key, !.reason = reason]

RECURSIVE StoryLoop_anystatus(_, _)
StoryLoop_anystatus(subtasks, acc) ==
    IF subtasks = <<>> THEN acc
    ELSE LET sub == Head(subtasks)
             rest == Tail(subtasks)
         IN  IF sub.fetchFails THEN StoryLoop_anystatus(rest, acc)
             ELSE IF ~TruthyNum(sub.estimate)
                  THEN StoryLoop_anystatus(rest, [acc EXCEPT !.missing_est = @ + 1])
             ELSE StoryLoop_anystatus(rest,
                    [acc EXCEPT
                       !.included = @ + 1,
                       !.est_sum = @ + Val(sub.estimate),
                       !.logged_sum = @ + _collect_logged_hours(sub.worklogs,
                                                                sub.worklogsFail, <<>>)])

\* the loop of get_story_aggregate_productivity over issue.fields.subtasks:
\* acc = [included, est_sum, logged_sum, missing_est]
RECURSIVE StoryLoop(_, _)
StoryLoop(subtasks, acc) ==
    IF subtasks = <<>> THEN acc
    ELSE LET sub == Head(subtasks)
             rest == Tail(subtasks)
         IN  IF sub.fetchFails THEN StoryLoop(rest, acc)
             ELSE IF ~is_done_status(sub.statusName) THEN StoryLoop(rest, acc)
             ELSE IF ~TruthyNum(sub.estimate)
                  THEN StoryLoop(rest, [acc EXCEPT !.missing_est = @ + 1])
             ELSE StoryLoop(rest,
                    [acc EXCEPT
                       !.included = @ + 1,
                       !.est_sum = @ + Val(sub.estimate),
                       !.logged_sum = @ + _collect_logged_hours(sub.worklogs,
                                                                sub.worklogsFail, <<>>)])

get_story_aggregate_productivity_zero(issue) ==
    LET acc == StoryLoop(issue.subtasks,
                         [included |-> 0, est_sum |-> 0, logged_sum |-> 0, missing_est |-> 0])
        productivity == IF acc.est_sum > 0
                        THEN calculate_productivity_score(acc.est_sum, acc.logged_sum)
                        ELSE None
    IN  [BlankResult EXCEPT
           !.kind = "aggregate",
           !.story_aggregate = TRUE,
           !.issue_key = issue.key,
           !.status = issue.statusName,
           !.included_subtasks_count = acc.included,
           !.excluded_subtasks_missing_estimate = acc.missing_est,
           !.aggregated_estimated_hours = RoundHours(acc.est_sum),
           !.aggregated_logged_hours = RoundHours(acc.logged_sum),
           !.aggregated_productivity_score =
               IF productivity # None THEN Some(RoundScore(productivity)) ELSE Some(0)]

get_story_aggregate_productivity(issue) ==
    LET acc == StoryLoop(issue.subtasks,
                         [included |-> 0, est_sum |-> 0, logged_sum |-> 0, missing_est |-> 0])
        productivity == IF acc.est_sum > 0
                        THEN calculate_productivity_score(acc.est_sum, acc.logged_sum)
                        ELSE None
    IN  [BlankResult EXCEPT
           !.kind = "aggregate",
           !.story_aggregate = TRUE,
           !.issue_key = issue.key,
           !.status = issue.statusName,
           !.included_subtasks_count = acc.included,
           !.excluded_subtasks_missing_estimate = acc.missing_est,
           !.aggregated_estimated_hours = RoundHours(acc.est_sum),
           !.aggregated_logged_hours = RoundHours(acc.logged_sum),
           !.aggregated_productivity_score =
               IF productivity # None THEN Some(RoundScore(productivity)) ELSE None]

NoEstimate_isnone(est_seconds) == est_seconds = None

\* "if not est_seconds": an absent estimate and an estimate of 0 alike
NoEstimate_main(est_seconds) == ~TruthyNum(est_seconds)

\* the tail of get_issue_productivity in src/main.py, from "Original per-issue calculation"
ScoreIssue_main(issue, worklogsFail) ==
    LET issue_type_name == Lower(OrEmpty(issue.typeName))
        activity_type == _extract_activity_type(issue.activityField)
        est_seconds == issue.estimate
    IN  IF ~Contains(t_task, issue_type_name) /\ ~Contains(t_story, issue_type_name)
        THEN ReasonResult(issue.key, "not_task_or_story")
        ELSE IF NoEstimate_main(est_seconds)
        THEN ReasonResult(issue.key, "no_estimate")
        ELSE
          LET est == Val(est_seconds)
              total_logged == _collect_logged_hours(issue.worklogs, worklogsFail, <<>>)
              is_productive == activity_type \in PRODUCTIVE_ACTIVITY_TYPES
              score == IF is_productive
                       THEN calculate_productivity_score(est, total_logged)
                       ELSE None
          IN  [BlankResult EXCEPT
                 !.kind = "record",
                 !.issue_key = issue.key,
                 !.type = issue.typeName,
                 !.status = issue.statusName,
                 !.activity_type = activity_type,
                 !.estimated_hours = RoundHours(est),
                 !.logged_hours = RoundHours(total_logged),
                 !.productivity_score =
                     IF score # None THEN Some(RoundScore(score)) ELSE None,
                 !.is_productive_activity = is_productive,
                 !.story_aggregate = FALSE]

StoryPath_onrequest(issue, aggregate_story) ==
    /\ Contains(t_story, Lower(OrEmpty(issue.typeName)))
    /\ aggregate_story

\* "Story aggregation logic": the test that sends a story to the aggregator
StoryPath_main(issue, aggregate_story) ==
    /\ Contains(t_story, Lower(OrEmpty(issue.typeName)))
    /\ (aggregate_story \/ ~TruthyNum(issue.estimate))

TaskGate_nolower(issue, strict_task_status) ==
    /\ Contains(t_task, OrEmpty(issue.typeName))
    /\ strict_task_status
    /\ ~is_done_status(issue.statusName)

\* "Task-level gating": the test that rejects a task that is not done
TaskGate_main(issue, strict_task_status) ==
    /\ Contains(t_task, Lower(OrEmpty(issue.typeName)))
    /\ strict_task_status
    /\ ~is_done_status(issue.statusName)

\* get_issue_productivity(issue_key, jira, strict_task_status, aggregate_story), src/main.py
\* issueFails / worklogsFail: whether jira.issue / jira.worklogs raises in this call
get_issue_productivity_main(issue, issueFails, worklogsFail, strict_task_status, aggregate_story) ==
    IF issueFails THEN ReasonResult(issue.key, "fetch_error")
    ELSE
      IF StoryPath_main(issue, aggregate_story)
      THEN get_story_aggregate_productivity(issue)
      ELSE IF TaskGate_main(issue, strict_task_status)
      THEN ReasonResult(issue.key, "status_not_done")
      ELSE ScoreIssue_main(issue, worklogsFail)

\* get_issue_productivity(jira, issue_key), src/dashboard/jira_logic.py
get_issue_productivity_dashboard(issue, issueFails, worklogsFail) ==
    IF issueFails THEN ReasonResult(issue.key, "fetch_error")
    ELSE
      LET issue_type == Lower(OrEmpty(issue.typeName))
          activity_type == _extract_activity_type(issue.activityField)
          estimated_seconds == issue.estimate
      IN  IF ~Contains(t_task, issue_type) /\ ~Contains(t_story, issue_type)
          THEN ReasonResult(issue.key, "not_task_or_story")
          ELSE IF ~TruthyNum(estimated_seconds)
          THEN ReasonResult(issue.key, "no_estimate")
          ELSE IF worklogsFail
          THEN ReasonResult(issue.key, "fetch_error")
          ELSE
            LET est == Val(estimated_seconds)
                total_logged == SumSeconds(issue.worklogs)
                is_productive == activity_type \in PRODUCTIVE_ACTIVITY_TYPES
            IN  [BlankResult EXCEPT
                   !.kind = "record",
                   !.issue_key = issue.key,
                   !.type = issue.typeName,
                   !.status = issue.statusName,
                   !.activity_type = activity_type,
                   !.estimated_hours = RoundHours(est),
                   !.logged_hours = RoundHours(total_logged),
                   !.productivity_score =
                       IF is_productive
                       THEN Some(RoundScore(calculate_productivity_score(est, total_logged)))
                       ELSE None,
                   !.is_productive_activity = is_productive]

----------------------------------------------------------------------------
(* Inputs *)

IdA1 == <<"a","c","c","1">>
IdA2 == <<"a","c","c","2">>
NameBob == <<"b","o","b">>
NameBobCap == <<"B","o","b">>
NameAmy == <<"a","m","y">>
DispBob == <<"B","o","b"," ","B">>
DispBobLower == <<"b","o","b"," ","b">>
DispAmy == <<"A","m","y"," ","A">>

Author(accountId, name, displayName) ==
    [present |-> TRUE, accountId |-> accountId, name |-> name, displayName |-> displayName]
NoAuthor ==
    [present |-> FALSE, accountId |-> MissingAttr, name |-> MissingAttr,
     displayName |-> MissingAttr]

\* a server/data-center author (name and display name, no account id) and a colleague
AuthorBob == Author(MissingAttr, NameBob, DispBob)
AuthorAmy == Author(MissingAttr, NameAmy, DispAmy)

Worklog(author, started, timeSpentSeconds) ==
    [author |-> author, started |-> started, timeSpentSeconds |-> timeSpentSeconds]

Field(shape, value) == [shape |-> shape, value |-> value]

Subtask(statusName, estimate, worklogs, fetchFails, worklogsFail) ==
    [statusName |-> statusName, estimate |-> estimate, worklogs |-> worklogs,
     fetchFails |-> fetchFails, worklogsFail |-> worklogsFail]

Issue(key, typeName, statusName, estimate, activityField, worklogs, subtasks) ==
    [key |-> key, typeName |-> typeName, statusName |-> statusName,
     estimate |-> estimate, activityField |-> activityField,
     worklogs |-> worklogs, subtasks |-> subtasks]

IsStoryLike(typeName) == Contains(t_story, Lower(OrEmpty(typeName)))
IsTaskLike(typeName) == Contains(t_task, Lower(OrEmpty(typeName)))

\* Inputs of the single-issue calls
IpTypes == {TypeTask, TypeSubTask, TypeStory, TypeStoryUpper, TypeBug, TypeStoryTask, NoneText}
IpStatuses == {StDone, StDoneUpper, StOpen}
IpEstimates == {None, Some(0), Some(36000), Some(115200)}
IpFields == { Field("none", NoneAct), Field("object", "Testing"), Field("dict", "Support"),
              Field("scalar", "Meeting"), Field("scalar", "testing") }
IpLog(seconds) == Worklog(AuthorAmy, Stamp("native", 3), seconds)
IpWorklogs == { <<>>, <<IpLog(25200)>>, <<IpLog(54000)>>, <<IpLog(111600)>>,
                <<IpLog(600), IpLog(400)>> }
IpSubtasks ==
    { <<>>,
      << Subtask(StDone, Some(7200), <<IpLog(3600)>>, FALSE, FALSE),
         Subtask(StClosed, Some(10800), <<IpLog(7200), IpLog(3600)>>, FALSE, FALSE),
         Subtask(StOpen, Some(36000), <<>>, FALSE, FALSE) >>,
      << Subtask(StDone, None, <<IpLog(3600)>>, FALSE, FALSE),
         Subtask(StDone, Some(3600), <<>>, TRUE, FALSE),
         Subtask(StDoneUpper, Some(3600), <<IpLog(1800)>>, FALSE, TRUE) >> }

\* tracker behaviour during one call: <<jira.issue raises, jira.worklogs raises>>
IpFailures == { <<FALSE, FALSE>>, <<TRUE, FALSE>>, <<FALSE, TRUE>> }

----------------------------------------------------------------------------
(* Each specification runs one part of the program; the variables of the other
   parts stay at their idle values. *)

WhoAmI(fails, accountId, name, displayName) ==
    [fails |-> fails, accountId |-> accountId, name |-> name, displayName |-> displayName]

IssueIdle ==
    /\ ipIn = [issue |-> Issue("K1", NoneText, NoneText, None, Field("none", NoneAct),
                               <<>>, <<>>),
               issueFails |-> FALSE, worklogsFail |-> FALSE, variant |-> "main",
               strict_task_status |-> FALSE, aggregate_story |-> FALSE]
    /\ ipOut = BlankResult
    /\ ipPc = "idle"

IssueFrame == UNCHANGED <<matchVars, dateVars, reportVars, hoursVars, timesheetVars, pageVars, twiceVars, classifyVars, parseVars, credVars, webVars, loggedVars>>

MatchIdle ==
    /\ mtIn = [whoami |-> WhoAmI(TRUE, NoneText, NoneText, NoneText),
               username |-> NameBob, author |-> NoAuthor, variant |-> "main"]
    /\ mtMe = Me(NoneText, NoneText, NoneText)
    /\ mtMatch = FALSE
    /\ mtPc = "idle"

MatchFrame == UNCHANGED <<issueVars, dateVars, reportVars, hoursVars, timesheetVars, pageVars, twiceVars, classifyVars, parseVars, credVars, webVars, loggedVars>>

DatesIdle ==
    /\ drIn = [start_date |-> 1, end_date |-> 1, exclude_weekends |-> TRUE,
               holidays |-> NoHolidays]
    /\ drCur = 1
    /\ drDays = {}
    /\ drPc = "idle"

DatesFrame == UNCHANGED <<issueVars, matchVars, reportVars, hoursVars, timesheetVars, pageVars, twiceVars, classifyVars, parseVars, credVars, webVars, loggedVars>>

\* the sums before the first issue
ZeroTotals ==
    [total_estimated |-> 0, total_logged |-> 0,
     productive_total_estimated |-> 0, productive_total_logged |-> 0,
     productive_overall |-> None]

ReportIdle ==
    /\ rpIn = [variant |-> "main", mode |-> "daily", parses |-> TRUE,
               start_date |-> 1, end_date |-> 1, exclude_weekends |-> TRUE,
               HOLIDAYS |-> {}, whoami |-> WhoAmI(TRUE, NoneText, NoneText, NoneText),
               JIRA_USERNAME |-> NameBob]
    /\ rpPc = "idle"
    /\ rpDates = {}
    /\ rpMe = Me(NoneText, NoneText, NoneText)
    /\ rpIssues = <<>>
    /\ rpI = 1
    /\ rpHours = <<>>
    /\ rpScored = <<>>
    /\ rpExcluded = <<>>
    /\ rpProductive = <<>>
    /\ rpTotals = ZeroTotals
    /\ rpQueries = 0
    /\ rpOut = "none"

ReportFrame == UNCHANGED <<issueVars, matchVars, dateVars, hoursVars, timesheetVars, pageVars, twiceVars, classifyVars, parseVars, credVars, webVars, loggedVars>>

HoursIdle ==
    /\ whIn = [variant |-> "main", parses |-> TRUE, target_date |-> 1,
               whoami |-> WhoAmI(TRUE, NoneText, NoneText, NoneText),
               JIRA_USERNAME |-> NameBob]
    /\ whPc = "idle"
    /\ whMe = Me(NoneText, NoneText, NoneText)
    /\ whIssues = <<>>
    /\ whI = 1
    /\ whIssueHours = <<>>
    /\ whTotal = 0
    /\ whOut = "none"

HoursFrame == UNCHANGED <<issueVars, matchVars, dateVars, reportVars, timesheetVars, pageVars, twiceVars, classifyVars, parseVars, credVars, webVars, loggedVars>>

TimesheetIdle ==
    /\ tsIn = [variant |-> "main", today |-> 1, days_back |-> 0, exclude_weekends |-> TRUE,
               HOLIDAYS |-> {}, WORKING_HOURS_PER_DAY |-> 800,
               whoami |-> WhoAmI(TRUE, NoneText, NoneText, NoneText),
               JIRA_USERNAME |-> NameBob]
    /\ tsPc = "idle"
    /\ tsMe = Me(NoneText, NoneText, NoneText)
    /\ tsIncluded = {}
    /\ tsIssues = <<>>
    /\ tsI = 1
    /\ tsLogs = <<>>
    /\ tsRows = <<>>
    /\ tsTotalGap = 0
    /\ tsOut = "none"

TimesheetFrame == UNCHANGED <<issueVars, matchVars, dateVars, reportVars, hoursVars, pageVars, twiceVars, classifyVars, parseVars, credVars, webVars, loggedVars>>

PageIdle ==
    /\ pgIn = [variant |-> "main", batch |-> 1, results |-> <<>>]
    /\ pgPc = "idle"
    /\ pgStartAt = 0
    /\ pgIssues = <<>>
    /\ pgOffsets = <<>>
    /\ pgBeat = FALSE
    /\ pgOut = "none"

PageFrame == UNCHANGED <<issueVars, matchVars, dateVars, reportVars, hoursVars, timesheetVars, twiceVars, classifyVars, parseVars, credVars, webVars, loggedVars>>

\* no call was made
NoRangeOut ==
    [out |-> "none", range_productivity |-> <<>>, issues_without_productivity |-> <<>>,
     productive_issues_only |-> <<>>, totals |-> ZeroTotals]

TwiceIdle ==
    /\ twCall = [parses |-> TRUE, start_date |-> 1, end_date |-> 1, exclude_weekends |-> TRUE]
    /\ twTracker = [whoami |-> WhoAmI(TRUE, NoneText, NoneText, NoneText),
                    searchFails |-> FALSE, issues |-> <<>>, failAt |-> 0, failWhat |-> "none"]
    /\ twClock = 1
    /\ twPc = "idle"
    /\ twOut1 = NoRangeOut
    /\ twOut2 = NoRangeOut

TwiceFrame == UNCHANGED <<issueVars, matchVars, dateVars, reportVars, hoursVars, timesheetVars, pageVars, classifyVars, parseVars, credVars, webVars, loggedVars>>

ClassifyIdle ==
    /\ clScore = None
    /\ clBand = "none"
    /\ clPc = "idle"

ClassifyFrame == UNCHANGED <<issueVars, matchVars, dateVars, reportVars, hoursVars, timesheetVars, pageVars, twiceVars, parseVars, credVars, webVars, loggedVars>>

ParseIdle ==
    /\ psIn = [text |-> [date |-> 0, time |-> FALSE, frac |-> 0, zone |-> "", natural |-> FALSE],
               lenient |-> FALSE]
    /\ psOut = [parser |-> "none", date |-> None]
    /\ psPc = "idle"

ParseFrame == UNCHANGED <<issueVars, matchVars, dateVars, reportVars, hoursVars, timesheetVars, pageVars, twiceVars, classifyVars, credVars, webVars, loggedVars>>

\* no call of login_helper was made
NoCall ==
    [op |-> "none", force_login |-> FALSE, prompted |-> FALSE, u |-> "", p |-> "",
     result |-> [JIRA_URL |-> "<unset>", JIRA_USERNAME |-> "<unset>", JIRA_PAT |-> "<unset>"],
     storedFull |-> FALSE, envEmpty |-> FALSE]

CredIdle ==
    /\ crEnv = [JIRA_URL |-> "<unset>", JIRA_USERNAME |-> "<unset>", JIRA_PAT |-> "<unset>"]
    /\ crStore = [JIRA_URL |-> "<unset>", JIRA_USERNAME |-> "<unset>", JIRA_PAT |-> "<unset>"]
    /\ crKeyring = "idle"
    /\ crLast = NoCall
    /\ crPrev = NoCall

CredFrame == UNCHANGED <<issueVars, matchVars, dateVars, reportVars, hoursVars, timesheetVars, pageVars, twiceVars, classifyVars, parseVars, webVars, loggedVars>>

WebIdle ==
    /\ wsSession = [jira_url |-> "<unset>", jira_username |-> "<unset>", jira_pat |-> "<unset>"]
    /\ wsBefore = [jira_url |-> "<unset>", jira_username |-> "<unset>", jira_pat |-> "<unset>"]
    /\ wsReq = [view |-> "none", method |-> "GET", post |-> [jira_url |-> "<unset>", jira_username |-> "<unset>", jira_pat |-> "<unset>"], connects |-> FALSE]
    /\ wsResp = "none"
    /\ wsFlushed = FALSE

WebFrame == UNCHANGED <<issueVars, matchVars, dateVars, reportVars, hoursVars, timesheetVars, pageVars, twiceVars, classifyVars, parseVars, credVars, loggedVars>>

\* the days-with-logs form has not returned
NoLoggedOut ==
    [out |-> "none", start_date |-> 0, end_date |-> 0, total_days |-> 0, days_with_logs |-> 0,
     days_missing |-> 0, missing_dates |-> <<>>, percentage_complete |-> 0]

LoggedIdle ==
    /\ dlIn = [start_date |-> 1, end_date |-> 1, exclude_weekends |-> TRUE, parses |-> TRUE, whoamiFails |-> FALSE, issues |-> <<>>, fails |-> "none"]
    /\ dlPc = "idle"
    /\ dlOut = NoLoggedOut
    /\ dlOrdered = NoLoggedOut

LoggedFrame == UNCHANGED <<issueVars, matchVars, dateVars, reportVars, hoursVars, timesheetVars, pageVars, twiceVars, classifyVars, parseVars, credVars, webVars>>

----------------------------------------------------------------------------
(* Identity matching: get_me, then _is_my_worklog on one worklog *)

MtAccountIds == {NoneText, <<>>, IdA1, IdA2}
MtNames == {NoneText, <<>>, NameBob, NameAmy}
MtDisplayNames == {NoneText, <<>>, DispBob}
MtUsernames == {NameBob, NameBobCap}
MtAuthorAccountIds == {MissingAttr, NoneText, <<>>, IdA1, IdA2}
MtAuthorNames == {MissingAttr, NoneText, <<>>, NameBob, NameBobCap, NameAmy}
MtAuthorDisplayNames == {MissingAttr, NoneText, <<>>, DispBob, DispBobLower}

MatchInit ==
    /\ \E fails \in BOOLEAN, a \in MtAccountIds, n \in MtNames, d \in MtDisplayNames,
          u \in MtUsernames, hasAuthor \in BOOLEAN, wa \in MtAuthorAccountIds,
          wn \in MtAuthorNames, wd \in MtAuthorDisplayNames,
          variant \in {"main", "dashboard"} :
         /\ fails => (a = NoneText /\ n = NoneText /\ d = NoneText)
         /\ ~hasAuthor => (wa = MissingAttr /\ wn = MissingAttr /\ wd = MissingAttr)
         /\ mtIn = [whoami |-> WhoAmI(fails, a, n, d), username |-> u,
                    author |-> IF hasAuthor THEN Author(wa, wn, wd) ELSE NoAuthor,
                    variant |-> variant]
    /\ mtMe = Me(NoneText, NoneText, NoneText)
    /\ mtMatch = FALSE
    /\ mtPc = "get_me"
    /\ IssueIdle /\ DatesIdle /\ ReportIdle /\ HoursIdle /\ TimesheetIdle /\ PageIdle /\ TwiceIdle /\ ClassifyIdle /\ ParseIdle /\ CredIdle /\ WebIdle /\ LoggedIdle

GetMe_main ==
    /\ mtPc = "get_me"
    /\ mtIn.variant = "main"
    /\ mtMe' = get_me_main(mtIn.whoami, mtIn.username)
    /\ mtPc' = "match"
    /\ UNCHANGED <<mtIn, mtMatch>>
    /\ MatchFrame

GetMe_dashboard ==
    /\ mtPc = "get_me"
    /\ mtIn.variant = "dashboard"
    /\ mtMe' = get_me_dashboard(mtIn.whoami)
    /\ mtPc' = "match"
    /\ UNCHANGED <<mtIn, mtMatch>>
    /\ MatchFrame

MatchWorklog ==
    /\ mtPc = "match"
    /\ mtMatch' = _is_my_worklog(Worklog(mtIn.author, Stamp("native", 3), 3600), mtMe)
    /\ mtPc' = "done"
    /\ UNCHANGED <<mtIn, mtMe>>
    /\ MatchFrame

MatchNext == GetMe_main \/ GetMe_dashboard \/ MatchWorklog

SpecMatch == MatchInit /\ [][MatchNext]_vars

----------------------------------------------------------------------------
(* Single-issue productivity: one call of get_issue_productivity *)

\* only main.py reads subtasks (of a story) and takes the two flags
IssueInit ==
    /\ \E t \in IpTypes, st \in IpStatuses, e \in IpEstimates, f \in IpFields,
          w \in IpWorklogs, sub \in IpSubtasks, fl \in IpFailures,
          variant \in {"main", "dashboard"}, s \in BOOLEAN, a \in BOOLEAN :
         /\ variant = "dashboard" => (~s /\ ~a /\ sub = <<>>)
         /\ ~IsStoryLike(t) => sub = <<>>
         /\ ipIn = [issue |-> Issue("K1", t, st, e, f, w, sub),
                    issueFails |-> fl[1], worklogsFail |-> fl[2], variant |-> variant,
                    strict_task_status |-> s, aggregate_story |-> a]
    /\ ipOut = BlankResult
    /\ ipPc = "call"
    /\ MatchIdle /\ DatesIdle /\ ReportIdle /\ HoursIdle /\ TimesheetIdle /\ PageIdle /\ TwiceIdle /\ ClassifyIdle /\ ParseIdle /\ CredIdle /\ WebIdle /\ LoggedIdle

IssueCall_main ==
    /\ ipPc = "call"
    /\ ipIn.variant = "main"
    /\ ipOut' = get_issue_productivity_main(ipIn.issue, ipIn.issueFails, ipIn.worklogsFail,
                                            ipIn.strict_task_status, ipIn.aggregate_story)
    /\ ipPc' = "done"
    /\ UNCHANGED ipIn
    /\ IssueFrame

IssueCall_dashboard ==
    /\ ipPc = "call"
    /\ ipIn.variant = "dashboard"
    /\ ipOut' = get_issue_productivity_dashboard(ipIn.issue, ipIn.issueFails,
                                                 ipIn.worklogsFail)
    /\ ipPc' = "done"
    /\ UNCHANGED ipIn
    /\ IssueFrame

IssueNext == IssueCall_main \/ IssueCall_dashboard

SpecIssue == IssueInit /\ [][IssueNext]_vars

----------------------------------------------------------------------------
(* Business calendar: one call of _dates_in_range, one loop iteration per step *)

\* the dates of the model: ordinals 1 (a Monday) to MaxDay
MaxDay == 8
Days == 1..MaxDay

DatesInit ==
    /\ \E start_date \in Days, end_date \in Days, exclude_weekends \in BOOLEAN,
          dates \in SUBSET Days, given \in BOOLEAN :
         /\ ~given => dates = {}
         /\ drIn = [start_date |-> start_date, end_date |-> end_date,
                    exclude_weekends |-> exclude_weekends,
                    holidays |-> IF given THEN Holidays(dates) ELSE NoHolidays]
         /\ drCur = start_date
    /\ drDays = {}
    /\ drPc = "loop"
    /\ IssueIdle /\ MatchIdle /\ ReportIdle /\ HoursIdle /\ TimesheetIdle /\ PageIdle /\ TwiceIdle /\ ClassifyIdle /\ ParseIdle /\ CredIdle /\ WebIdle /\ LoggedIdle

\* one iteration of "while cur <= end_date"
DatesStep ==
    /\ drPc = "loop"
    /\ drCur <= drIn.end_date
    /\ drDays' = IF IncludeDate(drCur, drIn.exclude_weekends, HolidaysOrEmpty(drIn.holidays))
                 THEN drDays \cup {drCur} ELSE drDays
    /\ drCur' = drCur + 1
    /\ UNCHANGED <<drIn, drPc>>
    /\ DatesFrame

\* the loop test fails: return days
DatesReturn ==
    /\ drPc = "loop"
    /\ ~(drCur <= drIn.end_date)
    /\ drPc' = "done"
    /\ UNCHANGED <<drIn, drCur, drDays>>
    /\ DatesFrame

DatesNext == DatesStep \/ DatesReturn

SpecDates == DatesInit /\ [][DatesNext]_vars

----------------------------------------------------------------------------
(* Daily and range productivity reports: get_daily_productivity and
   get_range_productivity of both copies *)

\* "if not included_dates"
NoWorkingDays_single(included_dates) == Cardinality(included_dates) <= 1

NoWorkingDays(included_dates) == included_dates = {}

\* the inner loop of get_daily_productivity over the worklogs of one issue:
\* date_logged_hours, in seconds
date_logged_hours(worklogs, me, target_date) ==
    LET Counted(wl) ==
            LET wl_date == _parse_iso_date(wl.started)
            IN  /\ wl_date # None                   \* else: except ... continue
                /\ Val(wl_date) = target_date
                /\ _is_my_worklog(wl, me)
    IN  SumSeconds(SelectSeq(worklogs, Counted))

range_hours_anyauthor(worklogs, me, included_dates) ==
    LET Counted(wl) ==
            LET wl_date == _parse_iso_date(wl.started)
            IN  /\ wl_date # None
                /\ Val(wl_date) \in included_dates
    IN  SumSeconds(SelectSeq(worklogs, Counted))

\* the inner loop of get_range_productivity: range_hours / range_logged_hours, in seconds
range_hours(worklogs, me, included_dates) ==
    LET Counted(wl) ==
            LET wl_date == _parse_iso_date(wl.started)
            IN  /\ wl_date # None                   \* else: except ... continue
                /\ Val(wl_date) \in included_dates
                /\ _is_my_worklog(wl, me)
    IN  SumSeconds(SelectSeq(worklogs, Counted))

HasWindowHours_nonneg(hours) == hours >= 0

\* "if date_logged_hours > 0" / "if range_hours > 0"
HasWindowHours(hours) == hours > 0

\* pdata with pdata["range_logged_hours"] = round(range_hours, 2)
ScoredEntry(pdata, hours) == [record |-> pdata, window_hours |-> RoundHours(hours)]

\* {"issue_key": ..., "reason": ...} of src/main.py: no window hours in the entry
ExcludedEntry_main(issue_key, reason) ==
    [issue_key |-> issue_key, reason |-> reason, window_hours |-> None]

\* the entry of the dashboard copy, with "range_logged_hours": round(range_logged_hours, 2)
ExcludedEntry_dashboard(issue_key, reason, hours) ==
    [issue_key |-> issue_key, reason |-> reason, window_hours |-> Some(RoundHours(hours))]

\* number of tracker calls of one get_issue_productivity call, src/main.py:
\* jira.issue, then jira.worklogs when the scoring gets that far
ScoringCalls_main(issue, issueFails) ==
    IF issueFails THEN 1
    ELSE IF StoryPath_main(issue, FALSE)
    THEN 1 + Len(issue.subtasks)
           + get_story_aggregate_productivity(issue).included_subtasks_count
    ELSE IF ScoreIssue_main(issue, FALSE).kind = "record" THEN 2 ELSE 1

\* the same for src/dashboard/jira_logic.py
ScoringCalls_dashboard(issue, issueFails) ==
    IF issueFails THEN 1
    ELSE IF get_issue_productivity_dashboard(issue, FALSE, FALSE).kind = "record" THEN 2 ELSE 1

OverallScore_swapped(productive_total_estimated, productive_total_logged) ==
    IF productive_total_estimated > 0
    THEN calculate_productivity_score(productive_total_logged, 36 * productive_total_estimated)
    ELSE None

\* calculate_productivity_score(productive_total_estimated, productive_total_logged):
\* the estimate sum is in hundredths of an hour, the logged sum in seconds
OverallScore(productive_total_estimated, productive_total_logged) ==
    IF productive_total_estimated > 0
    THEN calculate_productivity_score(36 * productive_total_estimated, productive_total_logged)
    ELSE None

\* Tracker content and calls of the reports

NumIssues == 2

RpMineFri == Worklog(AuthorBob, Stamp("native", 5), 3600)
RpMineSat == Worklog(AuthorBob, Stamp("native", 6), 1800)
RpMineMon == Worklog(AuthorBob, Stamp("native", 8), 5400)
RpOtherFri == Worklog(AuthorAmy, Stamp("native", 5), 7200)
RpBadStamp == Worklog(AuthorBob, Stamp("garbage", 5), 900)

RpLogsMixed == <<RpMineFri, RpOtherFri, RpBadStamp, RpMineSat, RpMineMon>>
RpLogsNotMine == <<RpOtherFri, RpBadStamp>>
RpLogsBadFirst == <<RpBadStamp, RpMineFri>>

RpTesting == Field("object", "Testing")
RpMeeting == Field("scalar", "Meeting")

\* the issues the search may return (keys are given by position)
RpPool ==
    { Issue("", TypeSubTask, StClosed, Some(5000), Field("dict", "Support"), RpLogsMixed, <<>>),
      Issue("", TypeTask, StDone, Some(36000), RpTesting, RpLogsNotMine, <<>>),
      Issue("", TypeTask, StDone, Some(36000), RpMeeting, RpLogsBadFirst, <<>>),
      Issue("", TypeTask, StOpen, Some(36000), RpTesting, RpLogsMixed, <<>>),
      Issue("", TypeBug, StDone, Some(36000), RpTesting, RpLogsBadFirst, <<>>),
      Issue("", TypeStory, StDone, None, RpTesting, RpLogsBadFirst, <<>>) }

RpKeys == <<"K1", "K2", "K3", "K4">>

\* the result lists of the search: up to NumIssues issues with distinct keys
RpIssueLists ==
    UNION { { [i \in 1..n |-> [f[i] EXCEPT !.key = RpKeys[i]]] : f \in [1..n -> RpPool] }
            : n \in 0..NumIssues }

\* the windows asked for: Friday to Monday, a weekend, a reversed range, one Friday
RpRanges == { <<5, 8>>, <<6, 7>>, <<8, 5>>, <<5, 5>> }
RpTargets == { 5, 6 }
RpHolidaySets == { {}, {5} }

ReportInit ==
    /\ \E variant \in {"main", "dashboard"}, mode \in {"daily", "range"},
          parses \in BOOLEAN, range \in RpRanges, target \in RpTargets,
          exclude_weekends \in BOOLEAN, holidays \in RpHolidaySets,
          whoamiFails \in BOOLEAN :
         \* main.py's range report is handed dates, not texts to parse
         /\ (variant = "main" /\ mode = "range") => parses
         \* the dashboard has no HOLIDAYS setting
         /\ variant = "dashboard" => holidays = {}
         /\ mode = "daily" => (range = <<5, 8>> /\ exclude_weekends /\ holidays = {})
         /\ mode = "range" => target = 5
         \* settings that cannot change the calendar of the range are left at one value
         /\ range = <<5, 5>> => exclude_weekends
         /\ range = <<6, 7>> => holidays = {}
         /\ rpIn = [variant |-> variant, mode |-> mode, parses |-> parses,
                    start_date |-> IF mode = "daily" THEN target ELSE range[1],
                    end_date |-> IF mode = "daily" THEN target ELSE range[2],
                    exclude_weekends |-> exclude_weekends,
                    HOLIDAYS |-> holidays,
                    whoami |-> IF whoamiFails THEN WhoAmI(TRUE, NoneText, NoneText, NoneText)
                               ELSE WhoAmI(FALSE, IdA1, NameBob, DispBob),
                    JIRA_USERNAME |-> NameBobCap]
    /\ rpPc = "start"
    /\ rpDates = {}
    /\ rpMe = Me(NoneText, NoneText, NoneText)
    /\ rpIssues = <<>>
    /\ rpI = 1
    /\ rpHours = <<>>
    /\ rpScored = <<>>
    /\ rpExcluded = <<>>
    /\ rpProductive = <<>>
    /\ rpTotals = ZeroTotals
    /\ rpQueries = 0
    /\ rpOut = "none"
    /\ IssueIdle /\ MatchIdle /\ DatesIdle /\ HoursIdle /\ TimesheetIdle /\ PageIdle /\ TwiceIdle /\ ClassifyIdle /\ ParseIdle /\ CredIdle /\ WebIdle /\ LoggedIdle

\* a return before the tracker is asked anything
ReturnEarly(out) ==
    /\ rpOut' = out
    /\ rpPc' = "done"
    /\ UNCHANGED <<rpIn, rpDates, rpMe, rpIssues, rpI, rpHours, rpScored, rpExcluded,
                   rpProductive, rpTotals, rpQueries>>

\* me = get_me(jira); logged_issues = _search_all_issues(...); "if not logged_issues":
\* two tracker calls, jira.myself and one page of jira.search_issues
SearchIssues(included_dates, me, empty_out) ==
    /\ rpDates' = included_dates
    /\ rpMe' = me
    /\ rpQueries' = rpQueries + 2
    /\ \E searchFails \in BOOLEAN, issues \in RpIssueLists :
         /\ searchFails => issues = <<>>
         /\ rpIssues' = issues
         /\ IF searchFails THEN rpOut' = "error" /\ rpPc' = "done"
            ELSE IF issues = <<>> THEN rpOut' = empty_out /\ rpPc' = "done"
            ELSE rpOut' = rpOut /\ rpPc' = "loop"
    /\ UNCHANGED <<rpIn, rpI, rpHours, rpScored, rpExcluded, rpProductive, rpTotals>>

\* get_daily_productivity, src/main.py, up to the for loop
DailyStart_main ==
    /\ rpPc = "start" /\ rpIn.variant = "main" /\ rpIn.mode = "daily"
    /\ IF ~rpIn.parses THEN ReturnEarly("parse_error")
       ELSE SearchIssues({rpIn.start_date},
                         get_me_main(rpIn.whoami, rpIn.JIRA_USERNAME), "no_issues")
    /\ ReportFrame

\* get_daily_productivity, src/dashboard/jira_logic.py, up to the for loop
DailyStart_dashboard ==
    /\ rpPc = "start" /\ rpIn.variant = "dashboard" /\ rpIn.mode = "daily"
    /\ IF ~rpIn.parses THEN ReturnEarly("parse_error")
       ELSE SearchIssues({rpIn.start_date}, get_me_dashboard(rpIn.whoami), "empty_report")
    /\ ReportFrame

\* get_range_productivity, src/main.py, up to the for loop
RangeStart_main ==
    /\ rpPc = "start" /\ rpIn.variant = "main" /\ rpIn.mode = "range"
    /\ LET included_dates == _dates_in_range_main(rpIn.start_date, rpIn.end_date,
                                                  rpIn.exclude_weekends, rpIn.HOLIDAYS)
       IN  IF NoWorkingDays(included_dates) THEN ReturnEarly("no_working_days")
           ELSE SearchIssues(included_dates,
                             get_me_main(rpIn.whoami, rpIn.JIRA_USERNAME), "no_issues")
    /\ ReportFrame

\* get_range_productivity, src/dashboard/jira_logic.py, up to the for loop
RangeStart_dashboard ==
    /\ rpPc = "start" /\ rpIn.variant = "dashboard" /\ rpIn.mode = "range"
    /\ IF ~rpIn.parses THEN ReturnEarly("parse_error")
       ELSE LET included_dates == _dates_in_range_dashboard(rpIn.start_date, rpIn.end_date,
                                                            rpIn.exclude_weekends, NoHolidays)
            IN  IF NoWorkingDays(included_dates) THEN ReturnEarly("no_working_days")
                ELSE SearchIssues(included_dates, get_me_dashboard(rpIn.whoami),
                                  "empty_report")
    /\ ReportFrame

\* an exception inside the try block: the except clause ends the report
ReportFails(calls) ==
    /\ rpOut' = "error"
    /\ rpPc' = "done"
    /\ rpQueries' = rpQueries + calls
    /\ UNCHANGED <<rpIn, rpDates, rpMe, rpIssues, rpI, rpHours, rpScored, rpExcluded,
                   rpProductive, rpTotals>>

\* the issue left no hours in the window: nothing is recorded for it
SkipIssue(hours) ==
    /\ rpHours' = Append(rpHours, hours)
    /\ rpI' = rpI + 1
    /\ rpQueries' = rpQueries + 1
    /\ UNCHANGED <<rpIn, rpPc, rpDates, rpMe, rpIssues, rpScored, rpExcluded,
                   rpProductive, rpTotals, rpOut>>

StatusGate_main_open(status_name) == FALSE

\* "if not is_done_status(status_name):" of the two aggregators of src/main.py
StatusGate_main(status_name) == ~is_done_status(status_name)

\* one iteration of "for issue in logged_issues", src/main.py (daily and range)
Iterate_main ==
    /\ rpPc = "loop" /\ rpIn.variant = "main" /\ rpI <= Len(rpIssues)
    /\ \E loopWorklogsFail \in BOOLEAN, issueFails \in BOOLEAN, worklogsFail \in BOOLEAN :
         LET issue == rpIssues[rpI]
             hours == IF rpIn.mode = "daily"
                      THEN date_logged_hours(issue.worklogs, rpMe, rpIn.start_date)
                      ELSE range_hours(issue.worklogs, rpMe, rpDates)
             pdata == get_issue_productivity_main(issue, issueFails, worklogsFail,
                                                  FALSE, FALSE)
         IN  /\ loopWorklogsFail => (~issueFails /\ ~worklogsFail)
             /\ IF loopWorklogsFail THEN ReportFails(1)
                ELSE IF ~HasWindowHours(hours) THEN SkipIssue(hours)
                ELSE
                  /\ rpHours' = Append(rpHours, hours)
                  /\ rpI' = rpI + 1
                  /\ UNCHANGED <<rpIn, rpPc, rpDates, rpMe, rpIssues, rpProductive, rpOut>>
                  /\ IF StatusGate_main(issue.statusName)
                     THEN /\ rpExcluded' = Append(rpExcluded,
                                 ExcludedEntry_main(issue.key, "status_not_done"))
                          /\ rpQueries' = rpQueries + 1
                          /\ UNCHANGED <<rpScored, rpTotals>>
                     ELSE
                       /\ rpQueries' = rpQueries + 1 + ScoringCalls_main(issue, issueFails)
                       /\ IF pdata.kind # "reason"       \* isinstance(pdata, dict)
                          THEN /\ rpScored' = Append(rpScored, ScoredEntry(pdata, hours))
                               /\ rpTotals' =
                                    IF pdata.is_productive_activity
                                    THEN [rpTotals EXCEPT
                                            !.productive_total_estimated =
                                                @ + pdata.estimated_hours,
                                            !.productive_total_logged = @ + hours]
                                    ELSE rpTotals
                               /\ UNCHANGED rpExcluded
                          ELSE /\ rpExcluded' = Append(rpExcluded,
                                      ExcludedEntry_main(issue.key, pdata.reason))
                               /\ UNCHANGED <<rpScored, rpTotals>>
    /\ ReportFrame

\* one iteration of "for issue in logged_issues", src/dashboard/jira_logic.py
Iterate_dashboard ==
    /\ rpPc = "loop" /\ rpIn.variant = "dashboard" /\ rpI <= Len(rpIssues)
    /\ \E loopWorklogsFail \in BOOLEAN, issueFails \in BOOLEAN, worklogsFail \in BOOLEAN,
          infoFails \in BOOLEAN :
         LET issue == rpIssues[rpI]
             hours == IF rpIn.mode = "daily"
                      THEN date_logged_hours(issue.worklogs, rpMe, rpIn.start_date)
                      ELSE range_hours(issue.worklogs, rpMe, rpDates)
             productivity_data == get_issue_productivity_dashboard(issue, issueFails,
                                                                   worklogsFail)
             calls == 1 + ScoringCalls_dashboard(issue, issueFails)
         IN  /\ loopWorklogsFail => (~issueFails /\ ~worklogsFail /\ ~infoFails)
             /\ IF loopWorklogsFail THEN ReportFails(1)
                ELSE IF ~HasWindowHours(hours) THEN SkipIssue(hours)
                ELSE IF productivity_data.kind = "reason" /\ infoFails
                THEN ReportFails(calls + 1)          \* jira.issue(issue.key) raises
                ELSE
                  /\ rpHours' = Append(rpHours, hours)
                  /\ rpI' = rpI + 1
                  /\ UNCHANGED <<rpIn, rpPc, rpDates, rpMe, rpIssues, rpOut>>
                  /\ IF productivity_data.kind # "reason"      \* if productivity_data:
                     THEN LET entry == ScoredEntry(productivity_data, hours) IN
                          /\ rpQueries' = rpQueries + calls
                          /\ rpScored' = Append(rpScored, entry)
                          /\ rpProductive' =
                               IF productivity_data.is_productive_activity
                               THEN Append(rpProductive, entry) ELSE rpProductive
                          /\ rpTotals' =
                               LET t == [rpTotals EXCEPT
                                           !.total_estimated =
                                               @ + productivity_data.estimated_hours,
                                           !.total_logged = @ + hours]
                               IN  IF productivity_data.is_productive_activity
                                   THEN [t EXCEPT
                                           !.productive_total_estimated =
                                               @ + productivity_data.estimated_hours,
                                           !.productive_total_logged = @ + hours]
                                   ELSE t
                          /\ UNCHANGED rpExcluded
                     ELSE /\ rpQueries' = rpQueries + calls + 1
                          /\ rpExcluded' = Append(rpExcluded,
                                 ExcludedEntry_dashboard(issue.key, productivity_data.reason,
                                                         hours))
                          /\ UNCHANGED <<rpScored, rpProductive, rpTotals>>
    /\ ReportFrame

\* after the loop, src/main.py: the report is printed; the detail lines read
\* item['type'], which a story aggregate does not have (KeyError, caught by the except)
Finish_main ==
    /\ rpPc = "loop" /\ rpIn.variant = "main" /\ rpI > Len(rpIssues)
    /\ rpPc' = "done"
    /\ IF \E i \in 1..Len(rpScored) : rpScored[i].record.kind = "aggregate"
       THEN rpOut' = "error" /\ UNCHANGED rpTotals
       ELSE /\ rpOut' = "report"
            /\ rpTotals' = [rpTotals EXCEPT !.productive_overall =
                              OverallScore(rpTotals.productive_total_estimated,
                                           rpTotals.productive_total_logged)]
    /\ UNCHANGED <<rpIn, rpDates, rpMe, rpIssues, rpI, rpHours, rpScored, rpExcluded,
                   rpProductive, rpQueries>>
    /\ ReportFrame

\* after the loop, src/dashboard/jira_logic.py: productive_overall and the returned dict
Finish_dashboard ==
    /\ rpPc = "loop" /\ rpIn.variant = "dashboard" /\ rpI > Len(rpIssues)
    /\ rpPc' = "done"
    /\ rpOut' = "report"
    /\ rpTotals' = [rpTotals EXCEPT !.productive_overall =
                      OverallScore(rpTotals.productive_total_estimated,
                                   rpTotals.productive_total_logged)]
    /\ UNCHANGED <<rpIn, rpDates, rpMe, rpIssues, rpI, rpHours, rpScored, rpExcluded,
                   rpProductive, rpQueries>>
    /\ ReportFrame

ReportNext ==
    \/ DailyStart_main
    \/ DailyStart_dashboard
    \/ RangeStart_main
    \/ RangeStart_dashboard
    \/ Iterate_main
    \/ Iterate_dashboard
    \/ Finish_main
    \/ Finish_dashboard

SpecReport == ReportInit /\ [][ReportNext]_vars

----------------------------------------------------------------------------
(* Daily work hours: get_jira_details of src/jira_work_hours/core.py, src/main.py and
   src/dashboard/jira_logic.py *)

\* the worklog loop of get_jira_details in core.py over one issue, from hours on:
\* a timestamp neither strptime nor fromisoformat reads raises ValueError, and
\* worklog.author.name.lower() raises without an author name; both leave the loop
RECURSIVE CoreWorklogLoop(_, _, _, _)
CoreWorklogLoop(worklogs, target_date, jira_username, hours) ==
    IF worklogs = <<>> THEN [hours |-> hours, raised |-> FALSE]
    ELSE LET worklog == Head(worklogs) IN
         IF worklog.started.shape = "garbage"
         THEN [hours |-> hours, raised |-> TRUE]
         ELSE IF worklog.started.day # target_date
         THEN CoreWorklogLoop(Tail(worklogs), target_date, jira_username, hours)
         ELSE IF ~worklog.author.present \/ worklog.author.name \in {MissingAttr, NoneText}
         THEN [hours |-> hours, raised |-> TRUE]
         ELSE IF Lower(worklog.author.name) = Lower(jira_username)
         THEN CoreWorklogLoop(Tail(worklogs), target_date, jira_username,
                              hours + worklog.timeSpentSeconds)
         ELSE CoreWorklogLoop(Tail(worklogs), target_date, jira_username, hours)

\* issue_hours[issue.key] = issue_total_hours
IssueHours(issue_key, hours) == [issue_key |-> issue_key, hours |-> hours]

HoursInit ==
    /\ \E variant \in {"core", "main", "dashboard"}, parses \in BOOLEAN,
          target \in RpTargets, whoamiFails \in BOOLEAN :
         \* core.py does not ask who-am-I
         /\ variant = "core" => ~whoamiFails
         /\ whIn = [variant |-> variant, parses |-> parses, target_date |-> target,
                    whoami |-> IF whoamiFails
                               THEN WhoAmI(TRUE, NoneText, NoneText, NoneText)
                               ELSE WhoAmI(FALSE, IdA1, NameBob, DispBob),
                    JIRA_USERNAME |-> NameBobCap]
    /\ whPc = "start"
    /\ whMe = Me(NoneText, NoneText, NoneText)
    /\ whIssues = <<>>
    /\ whI = 1
    /\ whIssueHours = <<>>
    /\ whTotal = 0
    /\ whOut = "none"
    /\ IssueIdle /\ MatchIdle /\ DatesIdle /\ ReportIdle /\ TimesheetIdle /\ PageIdle /\ TwiceIdle /\ ClassifyIdle /\ ParseIdle /\ CredIdle /\ WebIdle /\ LoggedIdle

HoursReturn(out) ==
    /\ whOut' = out
    /\ whPc' = "done"
    /\ UNCHANGED <<whIn, whMe, whIssues, whI, whIssueHours, whTotal>>

\* the searches before the loop: createdFatal says whether a failure of the
\* created-issues search ends the report
HoursSearch(me, createdFatal) ==
    /\ whMe' = me
    /\ \E createdFails \in BOOLEAN, searchFails \in BOOLEAN, issues \in RpIssueLists :
         /\ (createdFails /\ createdFatal) => ~searchFails
         /\ (searchFails \/ (createdFails /\ createdFatal)) => issues = <<>>
         /\ whIssues' = issues
         /\ IF searchFails \/ (createdFails /\ createdFatal)
            THEN whOut' = "error" /\ whPc' = "done"
            ELSE whOut' = whOut /\ whPc' = "loop"
    /\ UNCHANGED <<whIn, whI, whIssueHours, whTotal>>

\* get_jira_details, core.py, up to the for loop: dateparser.parse(date_str).date()
\* raises AttributeError on an unreadable date, outside any try
HoursStart_core ==
    /\ whPc = "start" /\ whIn.variant = "core"
    /\ \E connectFails \in BOOLEAN :
         IF ~whIn.parses THEN ~connectFails /\ HoursReturn("exception")
         ELSE IF connectFails THEN HoursReturn("connect_error")
         ELSE HoursSearch(whMe, FALSE)
    /\ HoursFrame

\* get_jira_details, src/main.py, up to the for loop
HoursStart_main ==
    /\ whPc = "start" /\ whIn.variant = "main"
    /\ \E connectFails \in BOOLEAN :
         IF ~whIn.parses THEN ~connectFails /\ HoursReturn("parse_error")
         ELSE IF connectFails THEN HoursReturn("connect_error")
         ELSE HoursSearch(get_me_main(whIn.whoami, whIn.JIRA_USERNAME), TRUE)
    /\ HoursFrame

\* get_jira_details, src/dashboard/jira_logic.py, up to the for loop
HoursStart_dashboard ==
    /\ whPc = "start" /\ whIn.variant = "dashboard"
    /\ IF ~whIn.parses THEN HoursReturn("parse_error")
       ELSE HoursSearch(get_me_dashboard(whIn.whoami), TRUE)
    /\ HoursFrame

\* one iteration of "for issue in logged_issues", core.py
Hours_core ==
    /\ whPc = "loop" /\ whIn.variant = "core" /\ whI <= Len(whIssues)
    /\ \E worklogsFail \in BOOLEAN :
         LET issue == whIssues[whI]
             loop == CoreWorklogLoop(issue.worklogs, whIn.target_date,
                                     whIn.JIRA_USERNAME, 0)
         IN  IF worklogsFail THEN HoursReturn("error")
             ELSE /\ whTotal' = whTotal + loop.hours
                  /\ IF loop.raised            \* except Exception, then the total is printed
                     THEN /\ whOut' = "error" /\ whPc' = "done"
                          /\ UNCHANGED <<whI, whIssueHours>>
                     ELSE /\ whI' = whI + 1
                          /\ whIssueHours' =
                               IF loop.hours > 0
                               THEN Append(whIssueHours, IssueHours(issue.key, loop.hours))
                               ELSE whIssueHours
                          /\ UNCHANGED <<whOut, whPc>>
                  /\ UNCHANGED <<whIn, whMe, whIssues>>
    /\ HoursFrame

\* one iteration of the issue loop of src/main.py and src/dashboard/jira_logic.py:
\* a worklog whose timestamp does not parse is passed over (except ... continue)
HoursIterate(variant) ==
    /\ whPc = "loop" /\ whIn.variant = variant /\ whI <= Len(whIssues)
    /\ \E worklogsFail \in BOOLEAN :
         LET issue == whIssues[whI]
             issue_total == date_logged_hours(issue.worklogs, whMe, whIn.target_date)
         IN  IF worklogsFail THEN HoursReturn("error")
             ELSE /\ whTotal' = whTotal + issue_total
                  /\ whI' = whI + 1
                  /\ whIssueHours' =
                       IF issue_total > 0
                       THEN Append(whIssueHours, IssueHours(issue.key, issue_total))
                       ELSE whIssueHours
                  /\ UNCHANGED <<whIn, whMe, whIssues, whOut, whPc>>
    /\ HoursFrame

Hours_main == HoursIterate("main")
Hours_dashboard == HoursIterate("dashboard")

\* after the loop: the total is printed (core.py, main.py) or returned (dashboard)
HoursFinish ==
    /\ whPc = "loop" /\ whI > Len(whIssues)
    /\ HoursReturn("report")
    /\ HoursFrame

HoursNext ==
    \/ HoursStart_core
    \/ HoursStart_main
    \/ HoursStart_dashboard
    \/ Hours_core
    \/ Hours_main
    \/ Hours_dashboard
    \/ HoursFinish

SpecHours == HoursInit /\ [][HoursNext]_vars

----------------------------------------------------------------------------
(* Timesheet completeness, per-day form: get_timesheet_completeness(jira, days_back,
   exclude_weekends) of src/main.py and src/dashboard/jira_logic.py *)

\* sorted(included)
RECURSIVE SortedDates(_)
SortedDates(dates) ==
    IF dates = {} THEN <<>>
    ELSE LET first == CHOOSE d \in dates : \A e \in dates : d <= e
         IN  <<first>> \o SortedDates(dates \ {first})

DayGap_signed(target, hrs) == target - hrs

\* gap = max(0.0, WORKING_HOURS_PER_DAY - hrs), in hundredths of an hour
DayGap(target, hrs) == IF target - hrs > 0 THEN target - hrs ELSE 0

\* one row of the table (main.py) or of days_data (dashboard)
DayRow(d, hrs, target, gap) ==
    [date |-> d, logged_hours |-> hrs, target_hours |-> target, gap_hours |-> gap]

\* "for d in sorted(included)": the rows and the running total_gap
RECURSIVE GapLoop(_, _, _, _)
GapLoop(days, logs_by_day, target, acc) ==
    IF days = <<>> THEN acc
    ELSE LET d == Head(days)
             hrs == RoundHours(logs_by_day[d])
             gap == DayGap(target, hrs)
         IN  GapLoop(Tail(days), logs_by_day, target,
                     [rows |-> Append(acc.rows, DayRow(d, hrs, target, gap)),
                      total_gap |-> acc.total_gap + gap])

TsThu5h == Worklog(AuthorBob, Stamp("native", 4), 18000)
TsFri10h == Worklog(AuthorBob, Stamp("native", 5), 36000)
TsFriOdd == Worklog(AuthorBob, Stamp("native", 5), 5000)
TsIssue(key, worklogs) ==
    Issue(key, TypeTask, StDone, Some(36000), RpTesting, worklogs, <<>>)
TsIssueLists ==
    { <<>>,
      <<TsIssue("K1", <<TsThu5h>>)>>,
      <<TsIssue("K1", <<TsThu5h>>), TsIssue("K2", <<TsFri10h, RpOtherFri, RpBadStamp>>)>>,
      <<TsIssue("K2", <<TsFri10h, RpOtherFri, RpBadStamp>>),
        TsIssue("K3", <<TsFriOdd, RpMineSat, RpMineMon>>)>> }
TsTodays == {5, 8}
TsDaysBack == {0, 1, 2, 4}
\* WORKING_HOURS_PER_DAY of the environment, in hundredths of an hour
TsTargets == {800, 750}

TimesheetInit ==
    /\ \E variant \in {"main", "dashboard"}, today \in TsTodays, days_back \in TsDaysBack,
          exclude_weekends \in BOOLEAN, holidays \in RpHolidaySets, target \in TsTargets,
          whoamiFails \in BOOLEAN :
         \* the dashboard has neither holidays nor a configured target
         /\ variant = "dashboard" => (holidays = {} /\ target = 800)
         /\ tsIn = [variant |-> variant, today |-> today, days_back |-> days_back,
                    exclude_weekends |-> exclude_weekends, HOLIDAYS |-> holidays,
                    WORKING_HOURS_PER_DAY |-> target,
                    whoami |-> IF whoamiFails
                               THEN WhoAmI(TRUE, NoneText, NoneText, NoneText)
                               ELSE WhoAmI(FALSE, IdA1, NameBob, DispBob),
                    JIRA_USERNAME |-> NameBobCap]
    /\ tsPc = "start"
    /\ tsMe = Me(NoneText, NoneText, NoneText)
    /\ tsIncluded = {}
    /\ tsIssues = <<>>
    /\ tsI = 1
    /\ tsLogs = <<>>
    /\ tsRows = <<>>
    /\ tsTotalGap = 0
    /\ tsOut = "none"
    /\ IssueIdle /\ MatchIdle /\ DatesIdle /\ ReportIdle /\ HoursIdle /\ PageIdle /\ TwiceIdle /\ ClassifyIdle /\ ParseIdle /\ CredIdle /\ WebIdle /\ LoggedIdle

\* the function ends before its rows exist: out is "exception" in main.py, which has no
\* try, and "error" in the dashboard, whose except returns (None, message)
TimesheetFails(variant) ==
    /\ tsOut' = IF variant = "main" THEN "exception" ELSE "error"
    /\ tsPc' = "done"

\* from get_me to logs_by_day = {d: 0.0 for d in included}
TimesheetStart(variant, me, included) ==
    /\ tsPc = "start" /\ tsIn.variant = variant
    /\ tsMe' = me
    /\ tsIncluded' = included
    /\ \E searchFails \in BOOLEAN, issues \in TsIssueLists :
         /\ searchFails => issues = <<>>
         /\ tsIssues' = issues
         /\ IF searchFails
            THEN TimesheetFails(variant) /\ tsLogs' = tsLogs
            ELSE /\ tsLogs' = [d \in included |-> 0]
                 /\ tsPc' = "loop" /\ tsOut' = tsOut
    /\ UNCHANGED <<tsIn, tsI, tsRows, tsTotalGap>>
    /\ TimesheetFrame

TimesheetStart_main ==
    LET start_date == tsIn.today - (tsIn.days_back - 1) IN
    TimesheetStart("main", get_me_main(tsIn.whoami, tsIn.JIRA_USERNAME),
                   _dates_in_range_main(start_date, tsIn.today, tsIn.exclude_weekends,
                                        tsIn.HOLIDAYS))

TimesheetStart_dashboard ==
    LET start_date == tsIn.today - (tsIn.days_back - 1) IN
    TimesheetStart("dashboard", get_me_dashboard(tsIn.whoami),
                   _dates_in_range_dashboard(start_date, tsIn.today, tsIn.exclude_weekends,
                                             NoHolidays))

\* one iteration of "for issue in issues": every worklog of mine dated in included is
\* added to the day it is dated; an unreadable timestamp is passed over
TimesheetIterate(variant) ==
    /\ tsPc = "loop" /\ tsIn.variant = variant /\ tsI <= Len(tsIssues)
    /\ \E worklogsFail \in BOOLEAN :
         IF worklogsFail
         THEN TimesheetFails(variant) /\ UNCHANGED <<tsI, tsLogs>>
         ELSE /\ tsLogs' = [d \in tsIncluded |->
                              tsLogs[d] + date_logged_hours(tsIssues[tsI].worklogs, tsMe, d)]
              /\ tsI' = tsI + 1
              /\ UNCHANGED <<tsPc, tsOut>>
    /\ UNCHANGED <<tsIn, tsMe, tsIncluded, tsIssues, tsRows, tsTotalGap>>
    /\ TimesheetFrame

TimesheetIterate_main == TimesheetIterate("main")
TimesheetIterate_dashboard == TimesheetIterate("dashboard")

\* after the loop: the rows and the total gap, printed (main.py) or returned (dashboard)
TimesheetFinish ==
    /\ tsPc = "loop" /\ tsI > Len(tsIssues)
    /\ LET acc == GapLoop(SortedDates(tsIncluded), tsLogs, tsIn.WORKING_HOURS_PER_DAY,
                          [rows |-> <<>>, total_gap |-> 0])
       IN  /\ tsRows' = acc.rows
           /\ tsTotalGap' = acc.total_gap
    /\ tsOut' = "report"
    /\ tsPc' = "done"
    /\ UNCHANGED <<tsIn, tsMe, tsIncluded, tsIssues, tsI, tsLogs>>
    /\ TimesheetFrame

TimesheetNext ==
    \/ TimesheetStart_main
    \/ TimesheetStart_dashboard
    \/ TimesheetIterate_main
    \/ TimesheetIterate_dashboard
    \/ TimesheetFinish

SpecTimesheet == TimesheetInit /\ [][TimesheetNext]_vars

----------------------------------------------------------------------------
(* Pagination: _search_all_issues of src/main.py and src/dashboard/jira_logic.py *)

MaxResults == 4
MaxPageSize == 3
\* requests followed one by one; more than a run with batch >= 1 can make
MaxRequests == 6

\* batch=100 of the dashboard copy
DashboardBatch == 100

\* PAGE_SIZE = int(os.getenv("PAGE_SIZE", "100")): any integer text is accepted
PageSizes == 0..MaxPageSize

\* the frozen result list of a query: n distinct issues
ResultList(n) == [i \in 1..n |-> i]

\* the answers jira.search_issues(jql, startAt, maxResults) can give against the frozen
\* result list: the slice of at most maxResults issues from startAt; for maxResults = 0
\* either no issue (the REST resource) or all of them (a client that reads 0 as "no
\* limit")
SearchAnswers(results, startAt, maxResults) ==
    LET rest == SubSeq(results, startAt + 1, Len(results))
    IN  IF maxResults > 0
        THEN { SubSeq(results, startAt + 1,
                      IF startAt + maxResults < Len(results)
                      THEN startAt + maxResults ELSE Len(results)) }
        ELSE { <<>>, rest }

ShortPage_orfull(chunk, batch) == Len(chunk) <= batch

\* "if len(chunk) < batch: break"
ShortPage(chunk, batch) == Len(chunk) < batch

PageInit ==
    /\ \E variant \in {"main", "dashboard"}, PAGE_SIZE \in PageSizes, n \in 0..MaxResults :
         /\ variant = "dashboard" => PAGE_SIZE = 0
         /\ pgIn = [variant |-> variant,
                    batch |-> IF variant = "main" THEN PAGE_SIZE ELSE DashboardBatch,
                    results |-> ResultList(n)]
    /\ pgPc = "loop"
    /\ pgStartAt = 0
    /\ pgIssues = <<>>
    /\ pgOffsets = <<>>
    /\ pgBeat = FALSE
    /\ pgOut = "none"
    /\ IssueIdle /\ MatchIdle /\ DatesIdle /\ ReportIdle /\ HoursIdle /\ TimesheetIdle /\ TwiceIdle /\ ClassifyIdle /\ ParseIdle /\ CredIdle /\ WebIdle /\ LoggedIdle

\* one iteration of "while True" in which the tracker answers: extend, test, advance.
\* The requests are recorded, and a run without short page is followed in full, for
\* MaxRequests iterations; after them the loop goes on with the answers that leave
\* issues as it is.
PageRequest(variant) ==
    /\ pgPc = "loop" /\ pgIn.variant = variant
    /\ \E chunk \in SearchAnswers(pgIn.results, pgStartAt, pgIn.batch) :
         /\ (Len(pgOffsets) >= MaxRequests) => chunk = <<>>
         /\ pgOffsets' = IF Len(pgOffsets) < MaxRequests
                         THEN Append(pgOffsets, pgStartAt) ELSE pgOffsets
         /\ pgIssues' = pgIssues \o chunk
         /\ pgBeat' = ~pgBeat
         /\ IF ShortPage(chunk, pgIn.batch)
            THEN /\ pgOut' = "returned" /\ pgPc' = "done"
                 /\ pgStartAt' = pgStartAt
            ELSE /\ pgStartAt' = pgStartAt + pgIn.batch
                 /\ UNCHANGED <<pgOut, pgPc>>
    /\ UNCHANGED pgIn
    /\ PageFrame

PageRequest_main == PageRequest("main")
PageRequest_dashboard == PageRequest("dashboard")

\* the iteration in which jira.search_issues raises: the exception leaves the function
PageRaises ==
    /\ pgPc = "loop"
    /\ pgOut' = "exception" /\ pgPc' = "done"
    /\ pgBeat' = ~pgBeat
    /\ UNCHANGED <<pgIn, pgStartAt, pgIssues, pgOffsets>>
    /\ PageFrame

PageNext ==
    \/ PageRequest_main
    \/ PageRequest_dashboard
    \/ PageRaises

SpecPage == PageInit /\ [][PageNext]_vars

\* the interpreter goes on with the loop for as long as the tracker answers; nothing
\* makes the tracker fail
SpecPageFair ==
    SpecPage /\ WF_vars(PageRequest_main) /\ WF_vars(PageRequest_dashboard)

----------------------------------------------------------------------------
(* get_range_productivity of src/dashboard/jira_logic.py as one call, made twice against
   the same tracker *)

\* what a call returns: the error kind or "report", the three lists and the totals
RangeOut(out, scored, excluded, productive, totals) ==
    [out |-> out, range_productivity |-> scored,
     issues_without_productivity |-> excluded,
     productive_issues_only |-> productive, totals |-> totals]

\* (None, message)
RangeError(out) == RangeOut(out, <<>>, <<>>, <<>>, ZeroTotals)

\* the tracker call of kind what for the issue at position i raises
TrackerFails(tracker, i, what) == tracker.failAt = i /\ tracker.failWhat = what

\* "for issue in logged_issues" from position i on, and the return after it
RECURSIVE RangeLoop_dashboard(_, _, _, _, _)
RangeLoop_dashboard(tracker, i, me, included_dates, acc) ==
    IF i > Len(tracker.issues)
    THEN RangeOut("report", acc.range_productivity, acc.issues_without_productivity,
                  acc.productive_issues_only,
                  [acc.totals EXCEPT !.productive_overall =
                      OverallScore(acc.totals.productive_total_estimated,
                                   acc.totals.productive_total_logged)])
    ELSE
      LET issue == tracker.issues[i]
          range_logged_hours == range_hours(issue.worklogs, me, included_dates)
          productivity_data ==
              get_issue_productivity_dashboard(issue, TrackerFails(tracker, i, "issue"),
                                               TrackerFails(tracker, i, "scoring_worklogs"))
      IN  IF TrackerFails(tracker, i, "worklogs") THEN RangeError("error")
          ELSE IF ~HasWindowHours(range_logged_hours)
          THEN RangeLoop_dashboard(tracker, i + 1, me, included_dates, acc)
          ELSE IF productivity_data.kind # "reason"
          THEN LET entry == ScoredEntry(productivity_data, range_logged_hours)
                   t == [acc.totals EXCEPT
                           !.total_estimated = @ + productivity_data.estimated_hours,
                           !.total_logged = @ + range_logged_hours]
               IN  RangeLoop_dashboard(tracker, i + 1, me, included_dates,
                     [acc EXCEPT
                        !.range_productivity = Append(@, entry),
                        !.productive_issues_only =
                            IF productivity_data.is_productive_activity
                            THEN Append(@, entry) ELSE @,
                        !.totals =
                            IF productivity_data.is_productive_activity
                            THEN [t EXCEPT
                                    !.productive_total_estimated =
                                        @ + productivity_data.estimated_hours,
                                    !.productive_total_logged = @ + range_logged_hours]
                            ELSE t])
          ELSE IF TrackerFails(tracker, i, "info") THEN RangeError("error")
          ELSE RangeLoop_dashboard(tracker, i + 1, me, included_dates,
                 [acc EXCEPT
                    !.issues_without_productivity =
                        Append(@, ExcludedEntry_dashboard(issue.key, productivity_data.reason,
                                                          range_logged_hours))])

\* the call from the parsed window on
RangeBody_dashboard(start_date, end_date, exclude_weekends, tracker) ==
    LET included_dates == _dates_in_range_dashboard(start_date, end_date, exclude_weekends,
                                                    NoHolidays)
        me == get_me_dashboard(tracker.whoami)
    IN  IF NoWorkingDays(included_dates) THEN RangeError("no_working_days")
        ELSE IF tracker.searchFails THEN RangeError("error")
        ELSE IF tracker.issues = <<>> THEN RangeError("empty_report")
        ELSE RangeLoop_dashboard(tracker, 1, me, included_dates,
               [range_productivity |-> <<>>, issues_without_productivity |-> <<>>,
                productive_issues_only |-> <<>>, totals |-> ZeroTotals])

get_range_productivity_untiltoday(call, tracker, today) ==
    IF ~call.parses THEN RangeError("parse_error")
    ELSE RangeBody_dashboard(call.start_date, today, call.exclude_weekends, tracker)

\* get_range_productivity(jira, jira_username, start_date_str, end_date_str, period_label,
\* exclude_weekends); today is the day of the call, which the function could read from
\* datetime.date.today() and does not
get_range_productivity_dashboard(call, tracker, today) ==
    IF ~call.parses THEN RangeError("parse_error")
    ELSE RangeBody_dashboard(call.start_date, call.end_date, call.exclude_weekends, tracker)

\* the calls of one issue that can raise
TwFailures == {"worklogs", "issue", "scoring_worklogs", "info"}
\* the first call is made on a Sunday
TwFirstDay == 7

TwiceInit ==
    /\ \E parses \in BOOLEAN, range \in RpRanges, exclude_weekends \in BOOLEAN :
         /\ ~parses => (range = <<5, 8>> /\ exclude_weekends)
         /\ range = <<5, 5>> => exclude_weekends
         /\ twCall = [parses |-> parses, start_date |-> range[1], end_date |-> range[2],
                      exclude_weekends |-> exclude_weekends]
    /\ \E whoamiFails \in BOOLEAN, searchFails \in BOOLEAN, issues \in RpIssueLists,
          failAt \in 0..NumIssues, failWhat \in TwFailures \cup {"none"} :
         /\ searchFails => (issues = <<>> /\ failAt = 0)
         /\ failAt <= Len(issues)
         /\ failAt = 0 <=> failWhat = "none"
         /\ twTracker = [whoami |-> IF whoamiFails
                                    THEN WhoAmI(TRUE, NoneText, NoneText, NoneText)
                                    ELSE WhoAmI(FALSE, IdA1, NameBob, DispBob),
                         searchFails |-> searchFails, issues |-> issues,
                         failAt |-> failAt, failWhat |-> failWhat]
    /\ twClock = TwFirstDay
    /\ twPc = "first"
    /\ twOut1 = NoRangeOut
    /\ twOut2 = NoRangeOut
    /\ IssueIdle /\ MatchIdle /\ DatesIdle /\ ReportIdle /\ HoursIdle /\ TimesheetIdle /\ ClassifyIdle /\ ParseIdle /\ CredIdle /\ WebIdle /\ LoggedIdle
    /\ PageIdle

\* the first call
TwiceFirst ==
    /\ twPc = "first"
    /\ twOut1' = get_range_productivity_dashboard(twCall, twTracker, twClock)
    /\ twPc' = "between"
    /\ UNCHANGED <<twCall, twTracker, twClock, twOut2>>
    /\ TwiceFrame

\* a day passes between the calls
TwiceMidnight ==
    /\ twPc = "between" /\ twClock = TwFirstDay
    /\ twClock' = twClock + 1
    /\ UNCHANGED <<twCall, twTracker, twPc, twOut1, twOut2>>
    /\ TwiceFrame

\* the second call, with the arguments of the first
TwiceSecond ==
    /\ twPc = "between"
    /\ twOut2' = get_range_productivity_dashboard(twCall, twTracker, twClock)
    /\ twPc' = "done"
    /\ UNCHANGED <<twCall, twTracker, twClock, twOut1>>
    /\ TwiceFrame

TwiceNext ==
    \/ TwiceFirst
    \/ TwiceMidnight
    \/ TwiceSecond

SpecTwice == TwiceInit /\ [][TwiceNext]_vars

----------------------------------------------------------------------------
(* Classification of a displayed score: get_daily_productivity, get_range_productivity and
   the single-issue view of src/main.py *)

\* TARGET_MIN = 30.0 and TARGET_MAX = 45.0, in hundredths of a percent
TARGET_MIN == 3000
TARGET_MAX == 4500

Classify_open(ps) ==
    IF ps = None THEN "none"
    ELSE IF TARGET_MIN < Val(ps) /\ Val(ps) < TARGET_MAX THEN "on_target"
    ELSE IF Val(ps) > TARGET_MAX THEN "above_target"
    ELSE IF Val(ps) >= 0 THEN "below_target"
    ELSE "over_estimate"

\* "if ps is None: continue", then the if / elif chain that prints one line
Classify(ps) ==
    IF ps = None THEN "none"
    ELSE IF TARGET_MIN <= Val(ps) /\ Val(ps) <= TARGET_MAX THEN "on_target"
    ELSE IF Val(ps) > TARGET_MAX THEN "above_target"
    ELSE IF Val(ps) >= 0 THEN "below_target"
    ELSE "over_estimate"

\* the scores displayed: every quarter of a percent up to MaxPercent either side, and
\* the hundredths next to the limits of the bands
MaxPercent == 110
ClScores ==
    {None} \cup { Some(25 * k) : k \in (-4 * MaxPercent)..(4 * MaxPercent) }
           \cup { Some(l + e) : l \in {0, TARGET_MIN, TARGET_MAX}, e \in {-1, 1} }

ClassifyInit ==
    /\ clScore \in ClScores
    /\ clBand = "none"
    /\ clPc = "show"
    /\ IssueIdle /\ MatchIdle /\ DatesIdle /\ ReportIdle /\ HoursIdle /\ TimesheetIdle /\ PageIdle /\ TwiceIdle /\ ParseIdle /\ CredIdle /\ WebIdle /\ LoggedIdle

\* the classification of one score is printed
ClassifyShow ==
    /\ clPc = "show"
    /\ clBand' = Classify(clScore)
    /\ clPc' = "done"
    /\ UNCHANGED clScore
    /\ ClassifyFrame

ClassifyNext == ClassifyShow

SpecClassify == ClassifyInit /\ [][ClassifyNext]_vars

----------------------------------------------------------------------------
(* _parse_iso_date of src/main.py and src/dashboard/jira_logic.py, parser by parser *)

\* a timestamp text by its parts:
\*   date     the calendar day written in it, 0 when no date is written
\*   time     "THH:MM:SS" follows the date
\*   frac     number of digits of ".fff" after the seconds, 0 for none
\*   zone     "" | "Z" | "+hh:mm" | "+hhmm" | "-hh:mm" | "-hhmm"
\*   natural  the date is written in words ("27 Aug 2025"), not as YYYY-MM-DD
StampText(date, time, frac, zone, natural) ==
    [date |-> date, time |-> time, frac |-> frac, zone |-> zone, natural |-> natural]

\* dt_str.replace("Z", "+00:00")
ReplaceZ(text) == IF text.zone = "Z" THEN [text EXCEPT !.zone = "+hh:mm"] ELSE text

\* datetime.datetime.fromisoformat: before Python 3.11 only what isoformat() writes
\* (3 or 6 fraction digits, offset with a colon), from 3.11 on most of ISO 8601
fromisoformat(text, lenient) ==
    IF /\ text.date # 0 /\ ~text.natural
       /\ \/ lenient
          \/ text.frac \in {0, 3, 6} /\ text.zone \in {"", "+hh:mm", "-hh:mm"}
    THEN Some(text.date) ELSE None

\* base = dt_str.split("+")[0].split(".")[0]
StripBase(text) ==
    LET noplus == IF text.zone \in {"+hh:mm", "+hhmm"} THEN [text EXCEPT !.zone = ""]
                  ELSE text
    IN  IF noplus.frac > 0 THEN [noplus EXCEPT !.frac = 0, !.zone = ""] ELSE noplus

\* datetime.datetime.strptime(base, "%Y-%m-%dT%H:%M:%S")
strptime(base) ==
    IF /\ base.date # 0 /\ ~base.natural
       /\ base.time /\ base.frac = 0 /\ base.zone = ""
    THEN Some(base.date) ELSE None

\* dateparser.parse(dt_str): the date of a text that writes one, None otherwise
dateparser_parse(text) == IF text.date # 0 THEN Some(text.date) ELSE None

ParseResult(parser, date) == [parser |-> parser, date |-> date]

_parse_iso_date_natural_first(dt_str, lenient) ==
    IF dateparser_parse(dt_str) # None THEN ParseResult("c", dateparser_parse(dt_str))
    ELSE ParseResult("ValueError", None)

\* _parse_iso_date(dt_str), with the parser that returned
_parse_iso_date_text(dt_str, lenient) ==
    LET a == fromisoformat(ReplaceZ(dt_str), lenient)
        b == strptime(StripBase(dt_str))
        c == dateparser_parse(dt_str)
    IN  IF a # None THEN ParseResult("a", a)
        ELSE IF b # None THEN ParseResult("b", b)
        ELSE IF c # None THEN ParseResult("c", c)
        ELSE ParseResult("ValueError", None)

PsZones == {"", "Z", "+hh:mm", "+hhmm", "-hh:mm", "-hhmm"}
PsFractions == {0, 1, 3, 6}
PsDates == {0, 5, 6}

ParseInit ==
    /\ \E date \in PsDates, time \in BOOLEAN, frac \in PsFractions, zone \in PsZones,
          natural \in BOOLEAN, lenient \in BOOLEAN :
         \* a fraction or an offset follows a time; words carry neither
         /\ ~time => (frac = 0 /\ zone = "")
         /\ natural => (date # 0 /\ ~time)
         /\ psIn = [text |-> StampText(date, time, frac, zone, natural),
                    lenient |-> lenient]
    /\ psOut = ParseResult("none", None)
    /\ psPc = "call"
    /\ IssueIdle /\ MatchIdle /\ DatesIdle /\ ReportIdle /\ HoursIdle /\ TimesheetIdle /\ PageIdle /\ TwiceIdle /\ ClassifyIdle /\ CredIdle /\ WebIdle /\ LoggedIdle

ParseCall ==
    /\ psPc = "call"
    /\ psOut' = _parse_iso_date_text(psIn.text, psIn.lenient)
    /\ psPc' = "done"
    /\ UNCHANGED psIn
    /\ ParseFrame

ParseNext == ParseCall

SpecParse == ParseInit /\ [][ParseNext]_vars

----------------------------------------------------------------------------
(* Credentials: ensure_credentials and clear_stored_credentials of
   src/jira_work_hours/login_helper.py *)

\* SERVICE entries and environment variables
Unset == "<unset>"
DEFAULT_JIRA_URL == "https://amatjira.amat.com"
Creds(url, user, pat) == [JIRA_URL |-> url, JIRA_USERNAME |-> user, JIRA_PAT |-> pat]

\* "if x:" for a value that is None, "" or a text
Given(x) == x # Unset /\ x # ""

\* keyring.set_password(SERVICE, key, value) inside try / "if keyring": stored by a
\* working keyring only
SetPassword(store, keyring, key, value) ==
    IF keyring = "working" THEN [store EXCEPT ![key] = value] ELSE store

\* the three keyring.delete_password calls inside one try: deleting an entry that is not
\* stored raises, and the except ends the block
RECURSIVE DeleteAll(_, _)
DeleteAll(store, keys) ==
    IF keys = <<>> THEN store
    ELSE IF store[Head(keys)] = Unset THEN store
    ELSE DeleteAll([store EXCEPT ![Head(keys)] = Unset], Tail(keys))

\* what a call leaves behind for the next one to be compared with: what was asked,
\* entered and returned, whether all three entries were stored when it began and whether
\* the environment held no credential then
Call(op, force_login, prompted, u, p, result, store, env) ==
    [op |-> op, force_login |-> force_login, prompted |-> prompted, u |-> u, p |-> p,
     result |-> result,
     storedFull |-> \A k \in DOMAIN store : store[k] # Unset,
     envEmpty |-> env.JIRA_USERNAME = Unset /\ env.JIRA_PAT = Unset]

EnsurePrompts_unlessknown(force_login, user, pat) == ~(Given(user) /\ Given(pat))

\* "if force_login or not (user and pat):"
EnsurePrompts(force_login, user, pat) == force_login \/ ~(Given(user) /\ Given(pat))

CrUsers == {"u1", "u2"}
CrPats == {"p1"}
CrEnvs == { Creds(Unset, user, pat) : user \in CrUsers \cup {Unset}, pat \in CrPats \cup {Unset} }

CredInit ==
    /\ crEnv \in CrEnvs
    /\ crStore = Creds(Unset, Unset, Unset)
    /\ crKeyring \in {"none", "working", "failing"}
    /\ crLast = NoCall
    /\ crPrev = NoCall
    /\ IssueIdle /\ MatchIdle /\ DatesIdle /\ ReportIdle /\ HoursIdle /\ TimesheetIdle /\ PageIdle /\ TwiceIdle /\ ClassifyIdle /\ ParseIdle /\ WebIdle /\ LoggedIdle

\* ensure_credentials(force_login) returning the stored credentials (lines 57-68)
EnsureFromKeyring ==
    /\ crKeyring = "working"
    /\ Given(crStore.JIRA_USERNAME) /\ Given(crStore.JIRA_PAT)
    /\ crEnv' = Creds(DEFAULT_JIRA_URL, crStore.JIRA_USERNAME, crStore.JIRA_PAT)
    /\ crLast' = Call("ensure", FALSE, FALSE, "", "",
                      Creds(DEFAULT_JIRA_URL, crStore.JIRA_USERNAME, crStore.JIRA_PAT),
                      crStore, crEnv)
    /\ crPrev' = crLast
    /\ UNCHANGED <<crStore, crKeyring>>
    /\ CredFrame

\* ensure_credentials(force_login) going past the keyring (lines 73-111)
EnsureWithPrompt ==
    \E force_login \in BOOLEAN, u \in CrUsers \cup {""}, p \in CrPats \cup {""} :
      LET fromKeyring == /\ ~force_login /\ crKeyring = "working"
                         /\ Given(crStore.JIRA_USERNAME) /\ Given(crStore.JIRA_PAT)
          prompted == EnsurePrompts(force_login, crEnv.JIRA_USERNAME, crEnv.JIRA_PAT)
          user == IF prompted /\ Given(u) THEN u ELSE crEnv.JIRA_USERNAME
          pat == IF prompted /\ Given(p) THEN p ELSE crEnv.JIRA_PAT
          store1 == IF prompted /\ Given(u)
                    THEN SetPassword(crStore, crKeyring, "JIRA_USERNAME", u) ELSE crStore
          store2 == IF prompted /\ Given(p)
                    THEN SetPassword(store1, crKeyring, "JIRA_PAT", p) ELSE store1
      IN  /\ ~fromKeyring
          /\ ~prompted => (u = "" /\ p = "")
          /\ crEnv' = Creds(DEFAULT_JIRA_URL, user, pat)
          /\ crStore' = SetPassword(store2, crKeyring, "JIRA_URL", DEFAULT_JIRA_URL)
          /\ crLast' = Call("ensure", force_login, prompted, u, p,
                            Creds(DEFAULT_JIRA_URL, user, pat), crStore, crEnv)
          /\ crPrev' = crLast
          /\ UNCHANGED crKeyring
          /\ CredFrame

\* clear_stored_credentials()
ClearStored ==
    /\ crStore' = IF crKeyring = "working"
                  THEN DeleteAll(crStore, <<"JIRA_USERNAME", "JIRA_PAT", "JIRA_URL">>)
                  ELSE crStore
    /\ crLast' = Call("clear", FALSE, FALSE, "", "", Creds(Unset, Unset, Unset),
                      crStore, crEnv)
    /\ crPrev' = crLast
    /\ UNCHANGED <<crEnv, crKeyring>>
    /\ CredFrame

\* the program is started again: a fresh environment, the keyring as it was left
NewProcess ==
    /\ crLast.op # "none"
    /\ crEnv' \in CrEnvs
    /\ UNCHANGED <<crStore, crKeyring, crLast, crPrev>>
    /\ CredFrame

CredNext ==
    \/ EnsureFromKeyring
    \/ EnsureWithPrompt
    \/ ClearStored
    \/ NewProcess

SpecCred == CredInit /\ [][CredNext]_vars

----------------------------------------------------------------------------
(* Web session: login_view, dashboard_view, the report views and logout_view of
   src/dashboard/views.py *)

\* the three session keys; a key that is absent reads as None
SessionOf(url, username, pat) == [jira_url |-> url, jira_username |-> username, jira_pat |-> pat]
EmptySession == SessionOf(Unset, Unset, Unset)

Request(view, method, post, connects) ==
    [view |-> view, method |-> method, post |-> post, connects |-> connects]

SessionAllows_either(session) == Given(session.jira_url) \/ Given(session.jira_pat)

\* the guard of every protected view passes:
\* not (not session.get('jira_url') or not session.get('jira_pat'))
SessionAllows(session) == ~(~Given(session.jira_url) \/ ~Given(session.jira_pat))

ProtectedViews ==
    {"dashboard", "daily_work_hours", "daily_productivity", "weekly_productivity",
     "monthly_productivity", "issue_productivity", "timesheet_completeness"}

\* values of the fields of a login form: absent, empty or a text
WsUrls == {Unset, "", "https://jira"}
WsUsernames == {Unset, "bob", "amy"}
WsPats == {Unset, "", "t1", "t2"}

WebInit ==
    /\ wsSession = EmptySession
    /\ wsBefore = EmptySession
    /\ wsReq = Request("none", "GET", EmptySession, FALSE)
    /\ wsResp = "none"
    /\ wsFlushed = FALSE
    /\ IssueIdle /\ MatchIdle /\ DatesIdle /\ ReportIdle /\ HoursIdle /\ TimesheetIdle /\ PageIdle /\ TwiceIdle /\ ClassifyIdle /\ ParseIdle /\ CredIdle /\ LoggedIdle

\* login_view, GET: the form is rendered
LoginGet ==
    /\ wsReq' = Request("login", "GET", EmptySession, FALSE)
    /\ wsBefore' = wsSession
    /\ wsResp' = "login_form"
    /\ UNCHANGED <<wsSession, wsFlushed>>
    /\ WebFrame

\* login_view, POST: JIRA(...) and jira.myself() succeed or raise; the three keys are
\* assigned after the test
LoginPost ==
    \E url \in WsUrls, username \in WsUsernames, pat \in WsPats, connects \in BOOLEAN :
        /\ wsReq' = Request("login", "POST", SessionOf(url, username, pat), connects)
        /\ wsBefore' = wsSession
        /\ IF connects
           THEN /\ wsSession' = SessionOf(url, username, pat)
                /\ wsResp' = "redirect_dashboard"
                /\ wsFlushed' = FALSE
           ELSE /\ wsResp' = "login_error"
                /\ UNCHANGED <<wsSession, wsFlushed>>
        /\ WebFrame

\* dashboard_view and the six report views, GET or POST
ProtectedView ==
    \E view \in ProtectedViews, method \in {"GET", "POST"} :
        /\ wsReq' = Request(view, method, EmptySession, FALSE)
        /\ wsBefore' = wsSession
        /\ wsResp' = IF SessionAllows(wsSession) THEN "page" ELSE "redirect_login"
        /\ UNCHANGED <<wsSession, wsFlushed>>
        /\ WebFrame

\* logout_view: request.session.flush()
LogoutView ==
    /\ wsReq' = Request("logout", "GET", EmptySession, FALSE)
    /\ wsBefore' = wsSession
    /\ wsSession' = EmptySession
    /\ wsResp' = "redirect_login"
    /\ wsFlushed' = TRUE
    /\ WebFrame

WebNext ==
    \/ LoginGet
    \/ LoginPost
    \/ ProtectedView
    \/ LogoutView

SpecWeb == WebInit /\ [][WebNext]_vars

----------------------------------------------------------------------------
(* Timesheet completeness, days-with-logs form: the second definition of
   get_timesheet_completeness(jira, jira_username, start_date_str, end_date_str,
   exclude_weekends) in src/dashboard/jira_logic.py, also in
   src/dashboard/jira_logic_updates.py *)

\* (None, message)
LoggedError(message) == [NoLoggedOut EXCEPT !.out = message]

\* the dictionary returned with None
LoggedResult(s, e, total, logged, missing, dates, pct) ==
    [out |-> "result", start_date |-> s, end_date |-> e, total_days |-> total,
     days_with_logs |-> logged, days_missing |-> missing, missing_dates |-> dates,
     percentage_complete |-> pct]

\* the while loop from start_date to end_date
business_days(start_date, end_date, exclude_weekends) ==
    { d \in start_date..end_date : ~exclude_weekends \/ Weekday(d) < 5 }

worklog_dates_anyday(issues, me, start_date, end_date, exclude_weekends) ==
    { d \in start_date..end_date :
        \E i \in 1..Len(issues) : \E j \in 1..Len(issues[i].worklogs) :
            LET worklog == issues[i].worklogs[j]
                worklog_date == _parse_iso_date(worklog.started)
            IN  /\ worklog_date # None
                /\ _is_my_worklog(worklog, me)
                /\ Val(worklog_date) = d }

\* the set filled by the loops over logged_issues and their worklogs; a worklog whose
\* timestamp cannot be read is passed over
worklog_dates(issues, me, start_date, end_date, exclude_weekends) ==
    { d \in start_date..end_date :
        \E i \in 1..Len(issues) : \E j \in 1..Len(issues[i].worklogs) :
            LET worklog == issues[i].worklogs[j]
                worklog_date == _parse_iso_date(worklog.started)
            IN  /\ worklog_date # None
                /\ _is_my_worklog(worklog, me)
                /\ Val(worklog_date) = d
                /\ ~exclude_weekends \/ Weekday(d) < 5 }

\* round((days_with_logs / total_days) * 100) if total_days > 0 else 0
percentage_complete(days_with_logs, total_days) ==
    IF total_days > 0 THEN RoundHalfEven(100 * days_with_logs, total_days) ELSE 0

\* the body after the dates were parsed
LoggedBody(start_date, end_date, call) ==
    LET days == business_days(start_date, end_date, call.exclude_weekends)
        me == get_me_dashboard(IF call.whoamiFails
                               THEN WhoAmI(TRUE, NoneText, NoneText, NoneText)
                               ELSE WhoAmI(FALSE, IdA1, NameBob, DispBob))
        dates == worklog_dates(call.issues, me, start_date, end_date, call.exclude_weekends)
        total_days == Cardinality(days)
        days_with_logs == Cardinality(dates)
    IN  IF days = {} THEN LoggedError("No working days in selected period")
        ELSE IF call.fails = "search" \/ (call.fails = "worklogs" /\ call.issues # <<>>)
        THEN LoggedError("Error calculating timesheet completeness")
        ELSE LoggedResult(start_date, end_date, total_days, days_with_logs,
                          total_days - days_with_logs, SortedDates(days \ dates),
                          percentage_complete(days_with_logs, total_days))

get_timesheet_completeness_days(start_date, end_date, call) ==
    IF ~call.parses THEN LoggedError("Error calculating timesheet completeness")
    ELSE IF start_date > end_date THEN LoggedBody(end_date, start_date, call)
    ELSE LoggedBody(start_date, end_date, call)

LoggedInit ==
    /\ \E start_date \in Days, end_date \in Days, exclude_weekends \in BOOLEAN,
          parses \in BOOLEAN, whoamiFails \in BOOLEAN, issues \in TsIssueLists,
          fails \in {"none", "search", "worklogs"} :
         /\ ~parses => (fails = "none" /\ issues = <<>> /\ ~whoamiFails)
         /\ fails = "search" => issues = <<>>
         /\ dlIn = [start_date |-> start_date, end_date |-> end_date,
                    exclude_weekends |-> exclude_weekends, parses |-> parses,
                    whoamiFails |-> whoamiFails, issues |-> issues, fails |-> fails]
    /\ dlPc = "start"
    /\ dlOut = NoLoggedOut
    /\ dlOrdered = NoLoggedOut
    /\ IssueIdle /\ MatchIdle /\ DatesIdle /\ ReportIdle /\ HoursIdle /\ TimesheetIdle /\ PageIdle /\ TwiceIdle /\ ClassifyIdle /\ ParseIdle /\ CredIdle /\ WebIdle

\* the call with the arguments as they were given
LoggedCall ==
    /\ dlPc = "start"
    /\ dlOut' = get_timesheet_completeness_days(dlIn.start_date, dlIn.end_date, dlIn)
    /\ dlPc' = "called"
    /\ UNCHANGED <<dlIn, dlOrdered>>
    /\ LoggedFrame

\* the same call with the earlier date first, against the same answers of the tracker
LoggedCallInOrder ==
    /\ dlPc = "called"
    /\ LET lo == IF dlIn.start_date <= dlIn.end_date THEN dlIn.start_date ELSE dlIn.end_date
           hi == IF dlIn.start_date <= dlIn.end_date THEN dlIn.end_date ELSE dlIn.start_date
       IN  dlOrdered' = get_timesheet_completeness_days(lo, hi, dlIn)
    /\ dlPc' = "done"
    /\ UNCHANGED <<dlIn, dlOut>>
    /\ LoggedFrame

LoggedNext ==
    \/ LoggedCall
    \/ LoggedCallInOrder

SpecLogged == LoggedInit /\ [][LoggedNext]_vars

----------------------------------------------------------------------------
(* Claims on get_issue_productivity *)

IpDone == ipPc = "done"
IpEstimate == ipIn.issue.estimate
\* the seconds of all worklogs the tracker delivered to the call (none when
\* jira.worklogs failed)
IpDelivered == IF ipIn.worklogsFail THEN 0 ELSE SumSeconds(ipIn.issue.worklogs)
IpWhitelisted == _extract_activity_type(ipIn.issue.activityField) \in PRODUCTIVE_ACTIVITY_TYPES

\* s (hundredths of a percent) is ((e - l) / e) * 100 rounded to 2 decimals
IsRoundedScore(s, e, l) == 2 * Abs(s * e - 10000 * (e - l)) <= e

\* C1: a scored record carries ((estimated - logged) / estimated) * 100 rounded to
\* 2 decimals when its activity type is whitelisted (10h/7h gives 30.0, 10h/15h
\* gives -50.0, nothing logged gives 100) and null otherwise.
C1_ScoreFormula ==
    (IpDone /\ ipOut.kind = "record") =>
        /\ IpWhitelisted =>
             /\ ipOut.productivity_score # None
             /\ IsRoundedScore(Val(ipOut.productivity_score), Val(IpEstimate), IpDelivered)
             /\ (IpEstimate = Some(36000) /\ IpDelivered = 25200)
                    => ipOut.productivity_score = Some(3000)
             /\ (IpEstimate = Some(36000) /\ IpDelivered = 54000)
                    => ipOut.productivity_score = Some(-5000)
             /\ IpDelivered = 0 => ipOut.productivity_score = Some(10000)
        /\ ~IpWhitelisted => ipOut.productivity_score = None

C1_Witness ==
    /\ IpDone /\ ipOut.kind = "record"
    /\ IpWhitelisted
    /\ IpEstimate = Some(115200) /\ IpDelivered = 111600
    /\ ipOut.productivity_score = Some(312)

\* C2 as stated: a scored record only for a Task- or Story-like type with a non-zero
\* estimate; any other type, and a Task-like issue without estimate, is rejected
\* with a reason.
C2_AsStated ==
    IpDone =>
        /\ ipOut.kind = "record" =>
             /\ IsTaskLike(ipIn.issue.typeName) \/ IsStoryLike(ipIn.issue.typeName)
             /\ TruthyNum(IpEstimate)
        /\ (~IsTaskLike(ipIn.issue.typeName) /\ ~IsStoryLike(ipIn.issue.typeName))
             => ipOut.kind = "reason"
        /\ (IsTaskLike(ipIn.issue.typeName) /\ ~TruthyNum(IpEstimate))
             => ipOut.kind = "reason"

\* C2 amended: as stated, the rejection for a missing estimate being that of a
\* Task-like issue whose type name does not also contain "story"; in main.py a
\* Story-like issue without estimate is aggregated, never scored.
C2_Amended ==
    IpDone =>
        /\ ipOut.kind = "record" =>
             /\ IsTaskLike(ipIn.issue.typeName) \/ IsStoryLike(ipIn.issue.typeName)
             /\ TruthyNum(IpEstimate)
             /\ ipOut.estimated_hours # 0
        /\ (~IsTaskLike(ipIn.issue.typeName) /\ ~IsStoryLike(ipIn.issue.typeName))
             => ipOut.kind = "reason"
        /\ ( /\ IsTaskLike(ipIn.issue.typeName)
             /\ ~IsStoryLike(ipIn.issue.typeName)
             /\ ~TruthyNum(IpEstimate) )
             => ipOut.kind = "reason"
        /\ (IsStoryLike(ipIn.issue.typeName) /\ ~TruthyNum(IpEstimate))
             => ipOut.kind # "record"

C2_Witness ==
    /\ IpDone
    /\ ipIn.issue.typeName = TypeSubTask
    /\ IpEstimate = Some(0)
    /\ ~ipIn.issueFails
    /\ ipOut.kind = "reason" /\ ipOut.reason = "no_estimate"

IpStatusNotDone == \A d \in DONE_STATUSES : Lower(OrEmpty(ipIn.issue.statusName)) # d

\* C3 as stated: with strict_task_status, a Task-like issue whose status is not done
\* is rejected with the status reason, whatever its estimate and activity type.
C3_AsStated ==
    ( /\ IpDone /\ ~ipIn.issueFails
      /\ ipIn.strict_task_status
      /\ IsTaskLike(ipIn.issue.typeName)
      /\ IpStatusNotDone )
    => (ipOut.kind = "reason" /\ ipOut.reason = "status_not_done")

\* C3 amended: as stated, unless the type name also contains "story" and the call
\* takes the aggregated path (aggregation requested, or no estimate), which is
\* tested first and returns the story aggregate.
C3_Amended ==
    ( /\ IpDone /\ ~ipIn.issueFails
      /\ ipIn.strict_task_status
      /\ IsTaskLike(ipIn.issue.typeName)
      /\ IpStatusNotDone )
    => IF IsStoryLike(ipIn.issue.typeName)
          /\ (ipIn.aggregate_story \/ ~TruthyNum(IpEstimate))
       THEN ipOut.kind = "aggregate"
       ELSE ipOut.kind = "reason" /\ ipOut.reason = "status_not_done"

C3_Witness ==
    /\ IpDone /\ ~ipIn.issueFails
    /\ ipIn.strict_task_status
    /\ ipIn.issue.typeName = TypeTask
    /\ ipIn.issue.statusName = StOpen
    /\ IpEstimate = Some(36000)
    /\ IpWhitelisted
    /\ ipOut.kind = "reason" /\ ipOut.reason = "status_not_done"

----------------------------------------------------------------------------
(* Claims on identity matching *)

\* a field of the worklog author that is present and not empty
AuthorHas(v) == v # MissingAttr /\ v # NoneText /\ v # <<>>
\* a field of the user's identity that is not empty
MeHas(v) == v # NoneText /\ v # <<>>

EqualIgnoringCase(a, b) ==
    /\ Len(a) = Len(b)
    /\ \A i \in 1..Len(a) : LowerChar(a[i]) = LowerChar(b[i])

MtShouldMatch ==
    /\ mtIn.author.present
    /\ \/ /\ AuthorHas(mtIn.author.accountId) /\ MeHas(mtMe.accountId)
          /\ mtIn.author.accountId = mtMe.accountId
       \/ /\ AuthorHas(mtIn.author.name) /\ MeHas(mtMe.name)
          /\ EqualIgnoringCase(mtIn.author.name, mtMe.name)
       \/ /\ AuthorHas(mtIn.author.displayName) /\ MeHas(mtMe.displayName)
          /\ mtIn.author.displayName = mtMe.displayName

\* C4: _is_my_worklog is true iff the worklog has an author and the two identities
\* share a non-empty account id, or a non-empty short name up to case, or a
\* non-empty display name.
C4_MatchRule == mtPc = "done" => (mtMatch <=> MtShouldMatch)

\* a shared account id wins over mismatched names
C4_Witness ==
    /\ mtPc = "done"
    /\ mtMatch
    /\ mtIn.author.accountId = IdA1 /\ mtMe.accountId = IdA1
    /\ mtIn.author.name = NameAmy /\ mtMe.name = NameBob
    /\ mtIn.author.displayName = DispBobLower /\ mtMe.displayName = DispBob

\* C5: when who-am-I fails, get_me returns the identity with empty account id and
\* display name and the configured username as short name, so a worklog whose
\* author's short name is the username up to case is attributed to the user.
C5_FallbackIdentity ==
    (mtIn.whoami.fails /\ mtPc \in {"match", "done"}) =>
        /\ ~MeHas(mtMe.accountId)
        /\ ~MeHas(mtMe.displayName)
        /\ mtMe.name = mtIn.username
        /\ ( /\ mtPc = "done" /\ mtIn.author.present
             /\ AuthorHas(mtIn.author.name)
             /\ EqualIgnoringCase(mtIn.author.name, mtIn.username) )
           => mtMatch

----------------------------------------------------------------------------
(* Claims on the business calendar *)

\* Monday to Friday, of an ordinal
IsMonToFri(d) == d % 7 \in {1, 2, 3, 4, 5}

DrHolidays == IF drIn.holidays.given THEN drIn.holidays.dates ELSE {}

\* C6: _dates_in_range returns exactly the dates from start to end, both inclusive,
\* that are Monday to Friday when weekends are excluded and are no holiday; one
\* weekday gives itself, a holiday at the end is left out, a reversed range is empty.
C6_DatesInRange ==
    drPc = "done" =>
        /\ drDays = { d \in drIn.start_date..drIn.end_date :
                        /\ ~drIn.exclude_weekends \/ IsMonToFri(d)
                        /\ d \notin DrHolidays }
        /\ drDays = _dates_in_range_dashboard(drIn.start_date, drIn.end_date,
                                              drIn.exclude_weekends, drIn.holidays)
        /\ drDays = _dates_in_range_main(drIn.start_date, drIn.end_date,
                                         drIn.exclude_weekends, DrHolidays)
        /\ (drIn.start_date = drIn.end_date /\ drIn.exclude_weekends /\ DrHolidays = {})
             => (drDays = {drIn.start_date} <=> IsMonToFri(drIn.start_date))
        /\ (drIn.start_date = drIn.end_date /\ drIn.exclude_weekends /\ DrHolidays = {})
             => (drDays = {} <=> ~IsMonToFri(drIn.start_date))
        /\ drIn.end_date \in DrHolidays => drIn.end_date \notin drDays
        /\ drIn.start_date > drIn.end_date => drDays = {}

\* Friday to Monday, weekends excluded, the Monday a holiday: the Friday alone
C6_Witness ==
    /\ drPc = "done"
    /\ drIn.start_date = 5 /\ drIn.end_date = 8
    /\ drIn.exclude_weekends
    /\ DrHolidays = {8}
    /\ drDays = {5}

----------------------------------------------------------------------------
(* Claims on the daily and range reports *)

\* the business calendar of the requested range, for the copy that is asked
RpHolidays == IF rpIn.variant = "main" THEN rpIn.HOLIDAYS ELSE {}
RpCalendar ==
    { d \in rpIn.start_date..rpIn.end_date :
        /\ ~rpIn.exclude_weekends \/ IsMonToFri(d)
        /\ d \notin RpHolidays }

\* the target dates of the report
RpTargetDates == IF rpIn.mode = "daily" THEN {rpIn.start_date} ELSE RpCalendar

Known(v) == v # MissingAttr /\ v # NoneText /\ v # <<>>

\* the matching rule: a shared account id, short name (ignoring case) or display name
SamePerson(author, me) ==
    /\ author.present
    /\ \/ Known(author.accountId) /\ Known(me.accountId) /\ author.accountId = me.accountId
       \/ Known(author.name) /\ Known(me.name) /\ EqualIgnoringCase(author.name, me.name)
       \/ /\ Known(author.displayName) /\ Known(me.displayName)
          /\ author.displayName = me.displayName

RECURSIVE SecondsAt(_, _)
SecondsAt(worklogs, positions) ==
    IF positions = {} THEN 0
    ELSE LET i == CHOOSE i \in positions : TRUE
         IN  worklogs[i].timeSpentSeconds + SecondsAt(worklogs, positions \ {i})

\* the seconds of the worklogs of an issue dated in the target dates and written by me
WindowSeconds(issue) ==
    SecondsAt(issue.worklogs,
              { i \in 1..Len(issue.worklogs) :
                  /\ issue.worklogs[i].started.shape # "garbage"
                  /\ issue.worklogs[i].started.day \in RpTargetDates
                  /\ SamePerson(issue.worklogs[i].author, rpMe) })

RpIssueByKey(key) == rpIssues[CHOOSE i \in 1..Len(rpIssues) : rpIssues[i].key = key]

RECURSIVE WindowSecondsOfKeys(_)
WindowSecondsOfKeys(keys) ==
    IF keys = {} THEN 0
    ELSE LET k == CHOOSE k \in keys : TRUE
         IN  WindowSeconds(RpIssueByKey(k)) + WindowSecondsOfKeys(keys \ {k})

RpScoredKeys == { rpScored[j].record.issue_key : j \in 1..Len(rpScored) }
RpProductiveScoredKeys ==
    { rpScored[j].record.issue_key :
        j \in { n \in 1..Len(rpScored) : rpScored[n].record.is_productive_activity } }
RpExcludedKeys == { rpExcluded[j].issue_key : j \in 1..Len(rpExcluded) }

\* C7: get_range_productivity ends with the no-working-days reason exactly when the
\* business calendar of the requested range is empty, and then it has made no tracker
\* call and built no report.
C7_NoWorkingDays ==
    (rpIn.mode = "range" /\ rpIn.parses /\ rpPc = "done") =>
        /\ rpOut = "no_working_days" <=> RpCalendar = {}
        /\ rpIn.start_date > rpIn.end_date => rpOut = "no_working_days"
        /\ rpOut = "no_working_days" =>
             /\ rpQueries = 0
             /\ rpIssues = <<>> /\ rpHours = <<>>
             /\ rpScored = <<>> /\ rpExcluded = <<>> /\ rpProductive = <<>>
             /\ rpTotals = ZeroTotals
        /\ rpOut # "no_working_days" => rpQueries > 0

\* one Friday that is a holiday: the reason, with no tracker call
C7_Witness ==
    /\ rpPc = "done" /\ rpIn.mode = "range"
    /\ rpIn.start_date = 5 /\ rpIn.end_date = 5 /\ rpIn.HOLIDAYS = {5}
    /\ rpOut = "no_working_days"
    /\ rpQueries = 0

\* C8: in the daily and range reports the window hours of every issue are the summed
\* durations of exactly its worklogs dated in the target dates and written by the
\* authenticated user; the entries and the logged totals are built from these alone.
C8_WindowHours ==
    /\ \A i \in 1..Len(rpHours) : rpHours[i] = WindowSeconds(rpIssues[i])
    /\ \A j \in 1..Len(rpScored) :
         rpScored[j].window_hours =
             RoundHours(WindowSeconds(RpIssueByKey(rpScored[j].record.issue_key)))
    /\ \A j \in 1..Len(rpExcluded) :
         rpExcluded[j].window_hours # None =>
             Val(rpExcluded[j].window_hours) =
                 RoundHours(WindowSeconds(RpIssueByKey(rpExcluded[j].issue_key)))
    /\ rpTotals.productive_total_logged = WindowSecondsOfKeys(RpProductiveScoredKeys)
    /\ rpIn.variant = "dashboard" =>
         rpTotals.total_logged = WindowSecondsOfKeys(RpScoredKeys)

\* Friday to Monday without the weekend: of the five worklogs only my Friday and
\* Monday ones count
C8_Witness ==
    /\ rpPc = "done" /\ rpOut = "report" /\ rpIn.mode = "range"
    /\ rpIn.start_date = 5 /\ rpIn.end_date = 8 /\ rpIn.exclude_weekends
    /\ rpIssues[1].worklogs = RpLogsMixed
    /\ rpHours[1] = 9000
    /\ Len(rpScored) = 1
    /\ rpTotals.productive_total_logged = 9000

RpTimesIn(keys_of_bucket, key) ==
    Cardinality({ j \in 1..Len(keys_of_bucket) : keys_of_bucket[j] = key })
RpScoredKeySeq == [j \in 1..Len(rpScored) |-> rpScored[j].record.issue_key]
RpExcludedKeySeq == [j \in 1..Len(rpExcluded) |-> rpExcluded[j].issue_key]

\* C9: an issue without window hours is in no bucket; an issue with window hours is
\* exactly once in the scored or the excluded bucket; productive-only entries are
\* scored entries.
C9_Buckets ==
    /\ \A i \in 1..Len(rpIssues) :
         LET key == rpIssues[i].key
             times == RpTimesIn(RpScoredKeySeq, key) + RpTimesIn(RpExcludedKeySeq, key)
         IN  /\ (i <= Len(rpHours) /\ WindowSeconds(rpIssues[i]) > 0) => times = 1
             /\ (i > Len(rpHours) \/ WindowSeconds(rpIssues[i]) = 0) => times = 0
    /\ \A j \in 1..Len(rpProductive) :
         \E n \in 1..Len(rpScored) : rpScored[n] = rpProductive[j]

\* a report of two issues: the first without window hours, the second scored and productive
C9_Witness ==
    /\ rpPc = "done" /\ rpOut = "report"
    /\ Len(rpIssues) = 2
    /\ rpHours[1] = 0 /\ rpHours[2] > 0
    /\ RpScoredKeys = {"K2"} /\ RpExcludedKeys = {}
    /\ rpProductive = rpScored

\* C10: (as stated) an issue with window hours whose scoring fails is excluded together
\* with its window hours, and the reported total of window hours is the sum over the
\* scored and the excluded issues.
C10_ExcludedHoursInTotal ==
    (rpPc = "done" /\ rpOut = "report") =>
        /\ \A j \in 1..Len(rpExcluded) :
             rpExcluded[j].window_hours =
                 Some(RoundHours(WindowSeconds(RpIssueByKey(rpExcluded[j].issue_key))))
        /\ rpIn.variant = "dashboard" =>
             rpTotals.total_logged = WindowSecondsOfKeys(RpScoredKeys \cup RpExcludedKeys)

RECURSIVE EstimatedHoursOf(_)
EstimatedHoursOf(entries) ==
    IF entries = <<>> THEN 0
    ELSE Head(entries).record.estimated_hours + EstimatedHoursOf(Tail(entries))

RpIsProductiveEntry(entry) == entry.record.is_productive_activity

\* E, in hundredths of an hour, and L, in seconds, over the scored productive issues
RpProductiveE == EstimatedHoursOf(SelectSeq(rpScored, RpIsProductiveEntry))
RpProductiveL == WindowSecondsOfKeys(RpProductiveScoredKeys)

\* C11: the overall percentage of a report is ((E - L) / E) * 100 with E the summed
\* estimated hours and L the summed window hours of the scored productive issues only;
\* it is absent when E is 0 and before the loop has ended.
C11_OverallScore ==
    /\ rpPc # "done" => rpTotals.productive_overall = None
    /\ (rpPc = "done" /\ rpOut = "report") =>
         /\ RpProductiveE = 0 <=> rpTotals.productive_overall = None
         /\ RpProductiveE > 0 =>
              \* the fraction (E - L) * 100 over E, both in seconds
              rpTotals.productive_overall =
                  <<(36 * RpProductiveE - RpProductiveL) * 100, 36 * RpProductiveE>>
         /\ rpTotals.productive_total_estimated = RpProductiveE
         /\ rpTotals.productive_total_logged = RpProductiveL

\* a report with one productive and one non-productive scored issue, and a score
C11_Witness ==
    /\ rpPc = "done" /\ rpOut = "report"
    /\ Len(rpScored) = 2
    /\ RpProductiveScoredKeys = {"K1"}
    /\ RpProductiveL > 0
    /\ rpTotals.productive_overall # None

----------------------------------------------------------------------------
(* Claims on the reports that read worklogs *)

\* the author test of the copy asked: core.py compares the names, the others use the matcher
WhIsMine(worklog) ==
    IF whIn.variant = "core"
    THEN /\ Known(worklog.author.name)
         /\ EqualIgnoringCase(worklog.author.name, whIn.JIRA_USERNAME)
    ELSE SamePerson(worklog.author, whMe)

\* the seconds of an issue on the target date, its unreadable worklogs left out
WhExpectedSeconds(issue) ==
    SecondsAt(issue.worklogs,
              { i \in 1..Len(issue.worklogs) :
                  /\ issue.worklogs[i].started.shape # "garbage"
                  /\ issue.worklogs[i].started.day = whIn.target_date
                  /\ WhIsMine(issue.worklogs[i]) })

RECURSIVE WhExpectedTotal(_)
WhExpectedTotal(issues) ==
    IF issues = <<>> THEN 0
    ELSE WhExpectedSeconds(Head(issues)) + WhExpectedTotal(Tail(issues))

\* C12: (as stated) a worklog with an unreadable timestamp is passed over: once the
\* worklogs of every issue were delivered the report completes, and its total is the
\* total of the same issues without their unreadable worklogs.
C12_MalformedSkipped ==
    /\ (whPc = "loop" /\ whOut = "none") =>
          whTotal = WhExpectedTotal(SubSeq(whIssues, 1, whI - 1))
    /\ (whPc = "done" /\ whOut = "report") => whTotal = WhExpectedTotal(whIssues)
    /\ (whPc = "done" /\ whOut = "error" /\ whIn.variant = "core") =>
          \* the tracker failed, not a timestamp
          \A i \in 1..Len(whIssues) : \A j \in 1..Len(whIssues[i].worklogs) :
              whIssues[i].worklogs[j].started.shape # "garbage"

----------------------------------------------------------------------------
(* Claims on failures inside the daily and range reports *)

\* C13: (as stated) a failure about one issue is contained: the report ends with an
\* overall error only when the search itself failed, and otherwise every candidate was
\* processed and each one with window hours is scored or excluded with a reason.
C13_PerIssueContained ==
    /\ (rpPc = "done" /\ rpOut = "error") => (rpIssues = <<>> /\ rpHours = <<>>)
    /\ (rpPc = "done" /\ rpOut = "report") =>
         /\ Len(rpHours) = Len(rpIssues)
         /\ \A i \in 1..Len(rpIssues) :
              WindowSeconds(rpIssues[i]) > 0 =>
                  rpIssues[i].key \in RpScoredKeys \cup RpExcludedKeys
         /\ \A j \in 1..Len(rpExcluded) : rpExcluded[j].reason # ""

----------------------------------------------------------------------------
(* Claims on story aggregation *)

IpSubs == ipIn.issue.subtasks

\* the subtasks that count: fetched, in a done status, with an estimate that is not 0
IpIncluded ==
    { i \in 1..Len(IpSubs) :
        /\ ~IpSubs[i].fetchFails
        /\ \E d \in DONE_STATUSES : Lower(OrEmpty(IpSubs[i].statusName)) = d
        /\ IpSubs[i].estimate # None /\ Val(IpSubs[i].estimate) # 0 }

\* the done subtasks without estimate
IpMissingEstimate ==
    { i \in 1..Len(IpSubs) :
        /\ ~IpSubs[i].fetchFails
        /\ \E d \in DONE_STATUSES : Lower(OrEmpty(IpSubs[i].statusName)) = d
        /\ (IpSubs[i].estimate = None \/ Val(IpSubs[i].estimate) = 0) }

RECURSIVE IpEstimateSum(_)
IpEstimateSum(positions) ==
    IF positions = {} THEN 0
    ELSE LET i == CHOOSE i \in positions : TRUE
         IN  Val(IpSubs[i].estimate) + IpEstimateSum(positions \ {i})

\* the seconds of all worklogs the tracker delivered for the subtasks at positions
RECURSIVE IpLoggedSum(_)
IpLoggedSum(positions) ==
    IF positions = {} THEN 0
    ELSE LET i == CHOOSE i \in positions : TRUE
         IN  (IF IpSubs[i].worklogsFail THEN 0
              ELSE SecondsAt(IpSubs[i].worklogs, 1..Len(IpSubs[i].worklogs)))
             + IpLoggedSum(positions \ {i})

\* C14: a story aggregate includes exactly the subtasks that were fetched, are done
\* and have a non-zero estimate; done subtasks without estimate are only counted as
\* missing; the aggregated estimate and logged hours are the sums over the included
\* subtasks, of all worklogs whoever wrote them.
C14_StoryInclusion ==
    (IpDone /\ ipOut.kind = "aggregate") =>
        /\ ipOut.included_subtasks_count = Cardinality(IpIncluded)
        /\ ipOut.excluded_subtasks_missing_estimate = Cardinality(IpMissingEstimate)
        /\ ipOut.aggregated_estimated_hours = RoundHours(IpEstimateSum(IpIncluded))
        /\ ipOut.aggregated_logged_hours = RoundHours(IpLoggedSum(IpIncluded))

\* two done subtasks (2h/1h, 3h/3h) and one open subtask of 10h: 5h, 4h, 2 included
C14_Witness ==
    /\ IpDone /\ ipOut.kind = "aggregate"
    /\ Len(IpSubs) = 3
    /\ IpSubs[3].statusName = StOpen /\ IpSubs[3].estimate = Some(36000)
    /\ ipOut.aggregated_estimated_hours = 500
    /\ ipOut.aggregated_logged_hours = 400
    /\ ipOut.included_subtasks_count = 2
    /\ ipOut.excluded_subtasks_missing_estimate = 0

\* C15: the aggregated score is present iff the summed estimate of the included
\* subtasks is > 0, iff a subtask is included, and is then the rounded
\* ((estimate - logged) / estimate) * 100; otherwise it is null.
C15_StoryScore ==
    (IpDone /\ ipOut.kind = "aggregate") =>
        /\ ipOut.aggregated_productivity_score # None <=> IpEstimateSum(IpIncluded) > 0
        /\ ipOut.aggregated_productivity_score # None <=> IpIncluded # {}
        /\ ipOut.aggregated_productivity_score # None =>
             IsRoundedScore(Val(ipOut.aggregated_productivity_score),
                            IpEstimateSum(IpIncluded), IpLoggedSum(IpIncluded))

\* the story of 5h estimated and 4h logged scores 20.00
C15_Witness ==
    /\ IpDone /\ ipOut.kind = "aggregate"
    /\ IpEstimateSum(IpIncluded) = 18000 /\ IpLoggedSum(IpIncluded) = 14400
    /\ ipOut.aggregated_productivity_score = Some(2000)

\* a story without any included subtask has no score
C15_WitnessNull ==
    /\ IpDone /\ ipOut.kind = "aggregate"
    /\ IpIncluded = {}
    /\ ipOut.aggregated_productivity_score = None

IpStoryCall ==
    /\ IpDone /\ ipIn.variant = "main" /\ ~ipIn.issueFails
    /\ IsStoryLike(ipIn.issue.typeName)

\* C16 as stated: a Story-like issue gives a story aggregate iff aggregation is asked
\* for or the story has no estimate; otherwise it is scored as a normal issue and gives
\* a record tagged story_aggregate = false; strict status gating does not touch the
\* aggregated path.
C16_AsStated ==
    IpStoryCall =>
        /\ ipOut.kind = "aggregate" <=> (ipIn.aggregate_story \/ ~TruthyNum(IpEstimate))
        /\ ipOut.kind = "aggregate" => ipOut.story_aggregate
        /\ ipOut.kind # "aggregate" => (ipOut.kind = "record" /\ ~ipOut.story_aggregate)

\* C16 amended: as stated, except that a story with its own estimate and no aggregation
\* request whose type name also contains "task" is rejected with the status reason
\* when strict gating is on and its status is not done.
C16_Amended ==
    IpStoryCall =>
        /\ ipOut.kind = "aggregate" <=> (ipIn.aggregate_story \/ ~TruthyNum(IpEstimate))
        /\ ipOut.kind = "aggregate" => ipOut.story_aggregate
        /\ ipOut.kind # "aggregate" =>
             IF IsTaskLike(ipIn.issue.typeName) /\ ipIn.strict_task_status /\ IpStatusNotDone
             THEN ipOut.kind = "reason" /\ ipOut.reason = "status_not_done"
             ELSE ipOut.kind = "record" /\ ~ipOut.story_aggregate

\* an open story without estimate under strict gating: aggregated all the same
C16_Witness ==
    /\ IpStoryCall
    /\ ipIn.issue.typeName = TypeStory /\ ipIn.issue.statusName = StOpen
    /\ ipIn.strict_task_status /\ ~ipIn.aggregate_story
    /\ IpEstimate = None
    /\ ipOut.kind = "aggregate" /\ ipOut.story_aggregate

----------------------------------------------------------------------------
(* Claims on the timesheet completeness *)

\* the business calendar of the window of days_back days ending today
TsCalendar ==
    { d \in (tsIn.today - (tsIn.days_back - 1))..tsIn.today :
        /\ ~tsIn.exclude_weekends \/ IsMonToFri(d)
        /\ d \notin (IF tsIn.variant = "main" THEN tsIn.HOLIDAYS ELSE {}) }

\* the seconds of my readable worklogs of one issue dated d
TsSecondsOfIssue(issue, d) ==
    SecondsAt(issue.worklogs,
              { i \in 1..Len(issue.worklogs) :
                  /\ issue.worklogs[i].started.shape # "garbage"
                  /\ issue.worklogs[i].started.day = d
                  /\ SamePerson(issue.worklogs[i].author, tsMe) })

RECURSIVE TsSecondsOn(_, _)
TsSecondsOn(issues, d) ==
    IF issues = <<>> THEN 0
    ELSE TsSecondsOfIssue(Head(issues), d) + TsSecondsOn(Tail(issues), d)

RECURSIVE TsGapSum(_)
TsGapSum(rows) ==
    IF rows = <<>> THEN 0 ELSE Head(rows).gap_hours + TsGapSum(Tail(rows))

\* C17: the per-day report has one row for every date of the business calendar, in
\* ascending order; a row's gap is max(0, target - hours logged that date), never
\* negative, the full target when nothing was logged; total_gap is the sum of the gaps.
C17_DayGaps ==
    (tsPc = "done" /\ tsOut = "report") =>
        /\ { tsRows[j].date : j \in 1..Len(tsRows) } = TsCalendar
        /\ Len(tsRows) = Cardinality(TsCalendar)
        /\ \A j \in 1..Len(tsRows) - 1 : tsRows[j].date < tsRows[j + 1].date
        /\ \A j \in 1..Len(tsRows) :
             LET logged == RoundHours(TsSecondsOn(tsIssues, tsRows[j].date))
                 target == tsIn.WORKING_HOURS_PER_DAY
             IN  /\ tsRows[j].logged_hours = logged
                 /\ tsRows[j].gap_hours >= 0
                 /\ logged < target => tsRows[j].gap_hours = target - logged
                 /\ logged >= target => tsRows[j].gap_hours = 0
                 /\ logged = 0 => tsRows[j].gap_hours = target
        /\ tsTotalGap = TsGapSum(tsRows)

\* target 8h over Thursday and Friday with 5h and 0h logged: gaps 3.0 and 8.0, total 11.0
C17_Witness ==
    /\ tsPc = "done" /\ tsOut = "report"
    /\ tsIn.WORKING_HOURS_PER_DAY = 800
    /\ Len(tsRows) = 2
    /\ tsRows[1].logged_hours = 500 /\ tsRows[1].gap_hours = 300
    /\ tsRows[2].logged_hours = 0 /\ tsRows[2].gap_hours = 800
    /\ tsTotalGap = 1100

\* 10h logged on the Friday leave the Thursday's gap of 3h as it is
C17_WitnessOver ==
    /\ tsPc = "done" /\ tsOut = "report"
    /\ tsIn.WORKING_HOURS_PER_DAY = 800
    /\ Len(tsRows) = 2
    /\ tsRows[1].gap_hours = 300
    /\ tsRows[2].logged_hours = 1000 /\ tsRows[2].gap_hours = 0
    /\ tsTotalGap = 300

----------------------------------------------------------------------------
(* Claims on pagination and termination *)

\* C18: against a frozen result list of length n and a page size b >= 1 the offsets
\* requested are 0, b, 2b, ..., the request of the first page shorter than b is the
\* last, and the issues returned are the result list, each once and in order.
C18_Pagination ==
    LET n == Len(pgIn.results)
        b == pgIn.batch
    IN  b >= 1 =>
          /\ \A k \in 1..Len(pgOffsets) : pgOffsets[k] = (k - 1) * b
          /\ (pgPc = "loop" /\ pgOffsets # <<>>) =>
                /\ Len(pgOffsets) * b <= n
                /\ pgIssues = SubSeq(pgIn.results, 1, Len(pgOffsets) * b)
          /\ (pgPc = "done" /\ pgOut = "returned") =>
                /\ pgIssues = pgIn.results
                /\ Len(pgOffsets) = (n \div b) + 1

\* four issues in pages of two: offsets 0, 2 and 4, the last page empty
C18_Witness ==
    /\ pgPc = "done" /\ pgOut = "returned"
    /\ pgIn.batch = 2 /\ Len(pgIn.results) = 4
    /\ pgOffsets = <<0, 2, 4>>
    /\ pgIssues = pgIn.results

\* no issue at all: one request, nothing returned
C18_WitnessEmpty ==
    /\ pgPc = "done" /\ pgOut = "returned"
    /\ pgIn.batch >= 1 /\ pgIn.results = <<>>
    /\ pgOffsets = <<0>> /\ pgIssues = <<>>

\* C19: (as stated) for every finite result set and every integer page size the
\* configuration can supply, the pagination loop of _search_all_issues ends.
C19_Terminates == <>(pgPc = "done")

----------------------------------------------------------------------------
(* Claims on repeated calls *)

----------------------------------------------------------------------------
(* Claims on failures of the tracker client *)

\* C21: (as stated) whatever tracker call fails, a report entry point ends with a
\* result or with a reason; no exception leaves it.
C21_NoEscape == tsPc = "done" => tsOut \in {"report", "error"}

\* C22: (as stated) when the tracker fails to deliver the worklogs of the issue, or of a
\* subtask that counts, the computation fails: no record and no story aggregate is
\* returned.
C22_WorklogFailureSurfaced ==
    IpDone =>
        /\ ipIn.worklogsFail => ipOut.kind # "record"
        /\ (\E i \in IpIncluded : IpSubs[i].worklogsFail) => ipOut.kind # "aggregate"

----------------------------------------------------------------------------
(* Claims on the classification of scores *)

\* C23: a displayed score gets the band of its interval: on target from 30 to 45, both
\* included, above target over 45, below target from 0 (included) to under 30, over
\* estimate under 0; a null score gets no band.
C23_Bands ==
    clPc = "done" =>
        /\ clScore = None <=> clBand = "none"
        /\ clScore # None =>
             LET s == clScore[1] IN
             /\ clBand = "on_target" <=> (3000 <= s /\ s <= 4500)
             /\ clBand = "above_target" <=> s > 4500
             /\ clBand = "below_target" <=> (0 <= s /\ s < 3000)
             /\ clBand = "over_estimate" <=> s < 0

\* 45.00 is on target
C23_Witness == clPc = "done" /\ clScore = <<4500>> /\ clBand = "on_target"

----------------------------------------------------------------------------
(* Claims on _parse_iso_date *)

\* the text is an ISO timestamp: YYYY-MM-DD, alone or with a time, with or without
\* fractional seconds, with or without "Z" or a numeric offset
PsIsIso == psIn.text.date # 0 /\ ~psIn.text.natural

\* what each parser makes of the text
PsA == fromisoformat(ReplaceZ(psIn.text), psIn.lenient)
PsB == strptime(StripBase(psIn.text))
PsC == dateparser_parse(psIn.text)

\* C24: the three parsers are tried in the order ISO, fixed format, natural language and
\* the first that reads the text gives the result; the call fails only if all three
\* fail; an ISO timestamp, with or without fraction and "Z", gives the date written.
C24_ParserOrder ==
    psPc = "done" =>
        /\ psOut.parser = "a" <=> PsA # None
        /\ psOut.parser = "b" <=> (PsA = None /\ PsB # None)
        /\ psOut.parser = "c" <=> (PsA = None /\ PsB = None /\ PsC # None)
        /\ psOut.parser = "ValueError" <=> (PsA = None /\ PsB = None /\ PsC = None)
        /\ psOut.parser = "a" => psOut.date = PsA
        /\ psOut.parser = "b" => psOut.date = PsB
        /\ psOut.parser = "c" => psOut.date = PsC
        /\ PsIsIso => psOut.date = <<psIn.text.date>>

\* the tracker's own form, 2025-08-27T10:00:00.000+0530, on an interpreter whose
\* fromisoformat rejects it: the fixed-format parser gives the date
C24_Witness ==
    /\ psPc = "done"
    /\ psIn.text = StampText(5, TRUE, 3, "+hhmm", FALSE) /\ ~psIn.lenient
    /\ psOut = ParseResult("b", <<5>>)

----------------------------------------------------------------------------
(* Claims on the stored credentials *)

\* a step in which ensure_credentials runs and returns
CrEnsureStep == EnsureFromKeyring \/ EnsureWithPrompt

\* C25: (as stated) when ensure_credentials has returned, JIRA_URL, JIRA_USERNAME and
\* JIRA_PAT are in the environment and the tuple returned holds those three values.
C25_CredentialsAvailable ==
    [][CrEnsureStep =>
         /\ crLast'.result = crEnv'
         /\ crEnv'.JIRA_URL # "<unset>"
         /\ crEnv'.JIRA_USERNAME # "<unset>"
         /\ crEnv'.JIRA_PAT # "<unset>"]_vars

\* C26: after clear_stored_credentials ran with a keyring available, none of
\* JIRA_USERNAME, JIRA_PAT and JIRA_URL remains stored, whatever subset of the three was
\* stored before the call.
C26_NothingStored ==
    [][(ClearStored /\ crKeyring = "working") => crStore' = Creds(Unset, Unset, Unset)]_vars

CrForced == crPrev.op = "ensure" /\ crPrev.force_login /\ Given(crPrev.u) /\ Given(crPrev.p)
CrPlainEnsure == crLast.op = "ensure" /\ ~crLast.force_login

\* C27: with a working keyring, the plain ensure_credentials() that follows a forced
\* login with a non-empty username and PAT returns exactly those values without
\* prompting; the plain ensure_credentials() that follows a clear of a fully populated
\* keyring, in an environment without credentials, prompts; and a forced login always
\* prompts and returns what was entered, or what the environment held, never what the
\* keyring holds.
C27_StoredThenReused ==
    /\ (crKeyring = "working" /\ CrForced /\ CrPlainEnsure) =>
           /\ ~crLast.prompted
           /\ crLast.result = Creds(DEFAULT_JIRA_URL, crPrev.u, crPrev.p)
    /\ (crKeyring = "working" /\ crPrev.op = "clear" /\ crPrev.storedFull
          /\ CrPlainEnsure /\ crLast.envEmpty) => crLast.prompted
    /\ (crLast.op = "ensure" /\ crLast.force_login) =>
           /\ crLast.prompted
           /\ Given(crLast.u) => crLast.result.JIRA_USERNAME = crLast.u
           /\ Given(crLast.p) => crLast.result.JIRA_PAT = crLast.p
           /\ (crLast.envEmpty /\ ~Given(crLast.u)) => crLast.result.JIRA_USERNAME = Unset
           /\ (crLast.envEmpty /\ ~Given(crLast.p)) => crLast.result.JIRA_PAT = Unset

C27_Witness ==
    /\ crKeyring = "working" /\ CrForced /\ CrPlainEnsure
    /\ crPrev.u = "u2" /\ crLast.envEmpty
    /\ crLast.result = Creds(DEFAULT_JIRA_URL, "u2", "p1")

C27_WitnessCleared ==
    /\ crKeyring = "working" /\ crPrev.op = "clear" /\ crPrev.storedFull
    /\ CrPlainEnsure /\ crLast.envEmpty /\ crLast.prompted

C27_WitnessForced ==
    /\ crLast.op = "ensure" /\ crLast.force_login /\ crLast.storedFull
    /\ crLast.envEmpty /\ crLast.u = "" /\ crLast.result.JIRA_USERNAME = Unset

----------------------------------------------------------------------------
(* Claims on the web session *)

WsLoginSucceeded == wsReq.view = "login" /\ wsReq.method = "POST" /\ wsReq.connects
WsLoginFailed == wsReq.view = "login" /\ wsReq.method = "POST" /\ ~wsReq.connects
WsHeldBoth == Given(wsBefore.jira_url) /\ Given(wsBefore.jira_pat)

\* C28: in one web session, a protected view (the dashboard and every report view)
\* redirects to login unless the session holds both jira_url and jira_pat; the three
\* session keys are written only by a login POST whose connection test succeeded, and
\* then all three with the posted values; a failed login POST leaves the session as it
\* was; and from logout_view until a later login succeeds every protected view
\* redirects to login.
C28_SessionGate ==
    /\ wsReq.view \in ProtectedViews =>
           /\ wsResp = "redirect_login" <=> ~WsHeldBoth
           /\ wsResp = "page" <=> WsHeldBoth
    /\ (\E k \in DOMAIN wsSession : wsSession[k] # wsBefore[k] /\ wsSession[k] # Unset)
           => WsLoginSucceeded
    /\ WsLoginSucceeded => wsSession = wsReq.post /\ wsResp = "redirect_dashboard"
    /\ WsLoginFailed => wsSession = wsBefore /\ wsResp = "login_error"
    /\ wsReq.view = "logout" => wsSession = EmptySession /\ wsResp = "redirect_login"
    /\ (wsFlushed /\ wsReq.view \in ProtectedViews) => wsResp = "redirect_login"

C28_Witness ==
    /\ wsReq.view = "timesheet_completeness" /\ wsReq.method = "POST"
    /\ wsFlushed /\ wsResp = "redirect_login"

C28_WitnessLoggedIn ==
    /\ wsReq.view = "dashboard" /\ ~wsFlushed /\ wsResp = "page"
    /\ wsSession = SessionOf("https://jira", "bob", "t1")

C28_WitnessFailedLogin ==
    /\ WsLoginFailed /\ wsReq.post.jira_pat = "t2"
    /\ wsSession = SessionOf("https://jira", "bob", "t1")

----------------------------------------------------------------------------
(* Claims on the days-with-logs form of get_timesheet_completeness *)

DlLo == IF dlIn.start_date <= dlIn.end_date THEN dlIn.start_date ELSE dlIn.end_date
DlHi == IF dlIn.start_date <= dlIn.end_date THEN dlIn.end_date ELSE dlIn.start_date
DlCalendar == { d \in DlLo..DlHi : dlIn.exclude_weekends => IsMonToFri(d) }
DlMe ==
    IF dlIn.whoamiFails THEN Me(NoneText, NoneText, NoneText) ELSE Me(IdA1, NameBob, DispBob)
\* the user has a readable worklog dated d
DlLoggedOn(d) ==
    \E i \in 1..Len(dlIn.issues) : \E j \in 1..Len(dlIn.issues[i].worklogs) :
        /\ _parse_iso_date(dlIn.issues[i].worklogs[j].started) = Some(d)
        /\ _is_my_worklog(dlIn.issues[i].worklogs[j], DlMe)
DlLoggedDays == { d \in DlCalendar : DlLoggedOn(d) }

\* C29: a result of the days-with-logs form satisfies days_with_logs + days_missing =
\* total_days, len(missing_dates) = days_missing, 0 <= days_with_logs <= total_days and
\* 0 <= percentage_complete <= 100; the logged days are the business days of the range
\* with a worklog of the user and missing_dates are the other business days; and the
\* call with a reversed range returns what the call with the dates in order returns.
C29_DaysWithLogs ==
    /\ dlOut.out = "result" =>
         /\ dlOut.days_with_logs + dlOut.days_missing = dlOut.total_days
         /\ Len(dlOut.missing_dates) = dlOut.days_missing
         /\ 0 <= dlOut.days_with_logs /\ dlOut.days_with_logs <= dlOut.total_days
         /\ 0 <= dlOut.percentage_complete /\ dlOut.percentage_complete <= 100
         /\ dlOut.total_days = Cardinality(DlCalendar)
         /\ dlOut.days_with_logs = Cardinality(DlLoggedDays)
         /\ dlOut.missing_dates = SortedDates(DlCalendar \ DlLoggedDays)
    /\ dlPc = "done" => dlOut = dlOrdered

C29_Witness ==
    /\ dlPc = "done" /\ dlOut.out = "result"
    /\ dlIn.start_date = 8 /\ dlIn.end_date = 4 /\ dlIn.exclude_weekends
    /\ dlOut.total_days = 3 /\ dlOut.days_with_logs = 2 /\ dlOut.missing_dates = <<4>>
    /\ dlOut.percentage_complete = 67
    /\ \E i \in 1..Len(dlIn.issues) : \E j \in 1..Len(dlIn.issues[i].worklogs) :
         dlIn.issues[i].worklogs[j] = RpMineSat

----------------------------------------------------------------------------
(* Claims on the status gate of the command-line reports *)

\* the issues the loop of the report has dealt with
RpHandled == { rpIssues[i] : i \in 1..(rpI - 1) }
RpDoneLike(issue) == \E d \in DONE_STATUSES : Lower(OrEmpty(issue.statusName)) = d
RpDoneEntry(entry) ==
    entry.record.is_productive_activity /\ RpDoneLike(RpIssueByKey(entry.record.issue_key))

\* C30: in the daily and range reports of src/main.py an issue with window hours whose
\* status is not done-like is never scored, whatever its type, estimate and activity
\* type: it is in the excluded list with the status reason and adds nothing to the
\* productive estimate and logged sums; only done-like issues are in the scored list.
C30_DoneOnly ==
    rpIn.variant = "main" =>
        /\ \A issue \in RpHandled :
             (WindowSeconds(issue) > 0 /\ ~RpDoneLike(issue)) =>
                 /\ issue.key \notin RpScoredKeys
                 /\ \E j \in 1..Len(rpExcluded) :
                      /\ rpExcluded[j].issue_key = issue.key
                      /\ rpExcluded[j].reason = "status_not_done"
        /\ \A key \in RpScoredKeys : RpDoneLike(RpIssueByKey(key))
        /\ rpTotals.productive_total_estimated =
               EstimatedHoursOf(SelectSeq(rpScored, RpDoneEntry))
        /\ rpTotals.productive_total_logged =
               WindowSecondsOfKeys({ k \in RpProductiveScoredKeys : RpDoneLike(RpIssueByKey(k)) })

\* a report with a scored done issue and an open task excluded for its status
C30_Witness ==
    /\ rpIn.variant = "main" /\ rpPc = "done" /\ rpOut = "report"
    /\ Len(rpScored) = 1 /\ rpTotals.productive_total_logged > 0
    /\ \E issue \in RpHandled :
         /\ issue.statusName = StOpen /\ issue.typeName = TypeTask
         /\ WindowSeconds(issue) > 0
         /\ \E j \in 1..Len(rpExcluded) :
              rpExcluded[j] = ExcludedEntry_main(issue.key, "status_not_done")

====
